---------------------------- MODULE Spec2Model ----------------------------
(***************************************************************************)
(* State-machine model of the WebSDR network client                        *)
(* (src/src/network/WebSDRClient.cpp) as its callers in                    *)
(* src/src/modules and src/test drive it: one caller thread running        *)
(* connect / disconnect / setAudioCallback, and the receive-loop thread    *)
(* started by connect.                                                     *)
(*                                                                         *)
(* Bytes are integers 0..255, a read is the sequence of bytes recv()       *)
(* stored in the buffer, a sample is the pair num/den of the float the     *)
(* code computes (int16 / 32768.0f is exact in binary floating point).     *)
(***************************************************************************)
EXTENDS Integers, Sequences, FiniteSets, TLC

VARIABLES
    connected,      \* std::atomic<bool> connected
    shouldStop,     \* std::atomic<bool> shouldStop
    socketFd,       \* int socketFd (-1: invalid)
    joinable,       \* receiveThread.joinable()
    callbackSet,    \* audioCallback holds a target
    openFds,        \* descriptors of this process that are open
    terminated,     \* std::terminate() was called
    callerPc,       \* position of the caller thread
    rlPc,           \* position of the receive-loop thread
    connStep,       \* sendWebSocketFrame calls connect() made in its current/last call
    connSent,       \* commands those calls handed to send()
    hs,             \* outcome of the last handshake attempt of connect()
    lastOp,         \* last public operation the caller started
    prevOp,         \* the operation before it
    lastRet,        \* what the last connect() returned
    joinedThread,   \* the last disconnect() joined a receive thread
    rx              \* the last recv() of the receive loop and what it caused

\* the host module (src/src/modules/WebSDRModule.cpp)
VARIABLES
    audioBuffer,    \* std::vector<float> audioBuffer, indexed from 0
    readPos,        \* size_t readPos
    writePos,       \* size_t writePos
    lastSample,     \* float lastSample
    resamplePhase,  \* float resamplePhase, in units of 1/PhaseDen
    written,        \* the samples the callback wrote since construction/reset
    lastIdx,        \* index in written of the sample consumed last (0: none)
    tick            \* the getResampledAudio call just made: the state it found
                    \* (empty, had, rp, phase0, prevIdx), the phase it
                    \* accumulated (acc), the samples it consumed (n, took)
                    \* and what it returned (out)
VARIABLES
    run             \* the ticks made at one engine rate since the phase was
                    \* 0, each of which found all the samples it advanced
                    \* over: their rate, their number and the samples they
                    \* consumed (ticks = 0: no such run is under way)

ringVars == <<audioBuffer, readPos, writePos, lastSample, resamplePhase,
              written, lastIdx, tick, run>>

\* the mode parameter, in units of 1/ModeDen
VARIABLES
    modeParam,      \* params[MODE_PARAM].getValue()
    lastMode        \* static float lastMode of process()

\* the frequency the module tuned to last
VARIABLES
    lastFreq        \* static float lastFreq of process(), in Hz

paramVars == <<modeParam, lastMode, lastFreq>>

\* the preset slots, numbered from 0 as in the module
VARIABLES
    freqParam,          \* params[FREQ_PARAM].getValue()
    presetFrequencies,  \* float presetFrequencies[NUM_PRESETS]
    presetSaved,        \* bool presetSaved[NUM_PRESETS]
    presetButtons,      \* params[PRESET_PARAM + i].getValue(): 0 or 1
    presetTriggers,     \* presetTriggers[i] is in its high state
    firstFreq,          \* the frequency parameter when slot i was first
                        \* pressed since construction/reset (0: not pressed)
    holds,              \* handlePresetPress calls for slot i since its button
                        \* went down
    presses             \* the handlePresetPress calls of the process tick
                        \* just made

presetVars == <<freqParam, presetFrequencies, presetSaved, presetButtons,
                presetTriggers, firstFreq, holds, presses>>

\* the buffer of the module's second version (WebSDRModule_v2.cpp), whose
\* size the context menu changes, and the threads that use it
VARIABLES
    bufferMutex,    \* std::mutex bufferMutex: "free", or the thread holding it
    lockPc,         \* where each thread is in its use of the buffer
    bufferSize,     \* float bufferSize, in units of half a second
    bufferLen,      \* audioBuffer.size(), in the same units
    v2ReadPos,      \* size_t readPos of the second version
    v2WritePos,     \* size_t writePos of the second version
    callbackMutex   \* std::mutex callbackMutex of the client: "free", or the
                    \* thread holding it

lockVars == <<bufferMutex, lockPc, bufferSize, bufferLen, v2ReadPos, v2WritePos,
              callbackMutex>>

hostVars == <<ringVars, paramVars, presetVars, lockVars>>

\* the public call the caller made last
VARIABLES
    cmd,            \* the text handed to sendWebSocketFrame, as bytes
    tx              \* the call just made and what it handed to send()
                    \* (conn: connected when it was made; text: the command
                    \* text; bytes: the frame built from cmd)

\* the far end of the connection
VARIABLES
    server          \* the tuning in effect at the server: the mode, the
                    \* passband edges and the frequency (Hz) carried last by
                    \* the commands sent on this connection ("" or 0: none)

callVars == <<cmd, tx, server>>

vars == <<connected, shouldStop, socketFd, joinable, callbackSet, openFds,
          terminated, callerPc, rlPc, connStep, connSent, hs, lastOp, prevOp,
          lastRet, joinedThread, rx, hostVars, callVars>>

callerVars == <<callerPc, connStep, connSent, hs, lastOp, prevOp, lastRet, joinedThread>>

-----------------------------------------------------------------------------
(* Bounds of the model *)

\* descriptors the process may hold open at once (socket() fails beyond it)
MaxFds == 2
\* payload bytes of the audio frames of SpecAudio
MaxPayloadLen == 4

-----------------------------------------------------------------------------
(* Small helpers *)

Min(a, b) == IF a < b THEN a ELSE b

SeqsUpTo(S, n) == UNION { [1..k -> S] : k \in 0..n }

-----------------------------------------------------------------------------
(* Handshake response: a sequence of chunks of text.  NUL stands for one   *)
(* zero byte, T101 for the text the client looks for.                      *)

T101 == "101 Switching Protocols"
T404 == "HTTP/1.1 404 Not Found"
TOther == "HTTP/1.1 "
NUL == "\\0"

\* what the first recv() of connect() may hold when it returns > 0
Responses ==
    { <<T404>>, <<T101>>, <<TOther, T101>>, <<TOther, T101, TOther>>,
      <<NUL, T101>>, <<T101, NUL>> }

\* strstr(buffer, "101 Switching Protocols") on the NUL-terminated buffer:
\* the search ends at the first zero byte.
StrStr101(resp) ==
    \E i \in 1..Len(resp) :
        /\ resp[i] = T101
        /\ \A j \in 1..(i - 1) : resp[j] # NUL

ConnectOutcomes == {"resolveFail", "socketFail", "connectFail", "recvFail", "response"}

\* socket(): the lowest free descriptor, -1 when none is free
FreeFds == (1..MaxFds) \ openFds
NewFd == IF FreeFds = {} THEN -1
         ELSE CHOOSE f \in FreeFds : \A g \in FreeFds : f <= g

-----------------------------------------------------------------------------
(* connect(): the session-initialization commands, in source order *)

\* as InitCommands, with audio started before the initial tune
InitCommands_StartBeforeTune ==
    << "SET auth t=kiwi p=",
       "SET AR OK in=12000 out=44100",
       "SET squelch=0 max=0",
       "SET genattn=0",
       "SET AUDIO_START=1",
       "SET keepalive",
       "SET AUDIO_COMP=0",
       "SET mod=am low_cut=-4000 high_cut=4000 freq=7055.000" >>

InitCommands ==
    << "SET auth t=kiwi p=",
       "SET AR OK in=12000 out=44100",
       "SET squelch=0 max=0",
       "SET genattn=0",
       "SET mod=am low_cut=-4000 high_cut=4000 freq=7055.000",
       "SET keepalive",
       "SET AUDIO_COMP=0",
       "SET AUDIO_START=1" >>

\* sendWebSocketFrame reaches send(): valid handle and short-form length
CanSend(data) == socketFd >= 0 /\ Len(data) < 126

-----------------------------------------------------------------------------
(* sendWebSocketFrame on the bytes of the text *)

\* payload bytes of the commands of SpecCodec
MaxCmdLen == 5

\* uint8_t mask[4] = {0x12, 0x34, 0x56, 0x78}
MaskKey == <<18, 52, 86, 120>>

\* bit k of the byte x
Bit(x, k) == (x \div (2 ^ k)) % 2

\* a ^ b on bytes
Xor8(a, b) ==
    LET d(k) == IF Bit(a, k) = Bit(b, k) THEN 0 ELSE 2 ^ k
    IN  d(0) + d(1) + d(2) + d(3) + d(4) + d(5) + d(6) + d(7)

\* as MaskPayload, but the key index runs from 1
MaskPayload_KeyShifted(data) ==
    [i \in 1..Len(data) |-> Xor8(data[i], MaskKey[(i % 4) + 1])]

\* the loop over the payload: data[i] ^ mask[i % 4], i from 0
MaskPayload(data) ==
    [i \in 1..Len(data) |-> Xor8(data[i], MaskKey[((i - 1) % 4) + 1])]

\* frame.push_back(0x81); frame.push_back(0x80 | data.size())
FrameHeader(data) == <<129, 128 + Len(data)>>

\* as EncodeFrame, but for every length
EncodeFrame_AnyLength(data) ==
    [ok |-> TRUE, frame |-> FrameHeader(data) \o MaskKey \o MaskPayload(data)]

\* the frame sendWebSocketFrame builds, or the refusal of a long text
EncodeFrame(data) ==
    IF Len(data) < 126
    THEN [ok |-> TRUE, frame |-> FrameHeader(data) \o MaskKey \o MaskPayload(data)]
    ELSE [ok |-> FALSE, frame |-> << >>]

\* sendWebSocketFrame(data) on the descriptor fd; sendOk: send() returned > 0
SendWebSocketFrame(fd, data, sendOk) ==
    IF fd < 0 THEN [ret |-> FALSE, called |-> FALSE, bytes |-> << >>]
    ELSE LET e == EncodeFrame(data) IN
         IF e.ok THEN [ret |-> sendOk, called |-> TRUE, bytes |-> e.frame]
         ELSE [ret |-> FALSE, called |-> FALSE, bytes |-> << >>]

NoTx == [op |-> "none", arg |-> "", conn |-> FALSE, ret |-> FALSE,
         called |-> FALSE, text |-> "", bytes |-> << >>]

\* nothing was sent on the connection yet
NoServer == [mode |-> "", low |-> 0, high |-> 0, freq |-> 0]

\* what a command carries (eff) takes effect at the server
Apply(srv, eff) ==
    [mode |-> IF eff.mode # "" THEN eff.mode ELSE srv.mode,
     low  |-> IF eff.low # 0 THEN eff.low ELSE srv.low,
     high |-> IF eff.high # 0 THEN eff.high ELSE srv.high,
     freq |-> IF eff.freq # 0 THEN eff.freq ELSE srv.freq]

\* three decimal places
Pad3(d) ==
    IF d < 10 THEN "00" \o ToString(d)
    ELSE IF d < 100 THEN "0" \o ToString(d)
    ELSE ToString(d)

\* std::fixed << std::setprecision(3) << freq / 1000.0f, for a frequency of
\* whole Hz below 2^24, which a float holds exactly
FixedKhz(freq) == ToString(freq \div 1000) \o "." \o Pad3(freq % 1000)

\* the text setFrequency builds, and what it carries
FrequencyCommand(freq) ==
    [text |-> "SET mod=am low_cut=-4000 high_cut=4000 freq=" \o FixedKhz(freq),
     eff  |-> [mode |-> "am", low |-> -4000, high |-> 4000, freq |-> freq]]

\* the text setBandwidth builds for an even bandwidth of whole Hz, and what
\* it carries
BandwidthCommand(bw) ==
    [text |-> "SET low_cut=-" \o ToString(bw \div 2) \o " high_cut=" \o ToString(bw \div 2),
     eff  |-> [mode |-> "", low |-> -(bw \div 2), high |-> bw \div 2, freq |-> 0]]

\* the frequency of connect()'s tune command, freq=7055.000, in Hz
InitFreq == 7055000

\* what a session-initialization command carries: one of them is the tune
\* command of that frequency
InitEffect(text) ==
    IF text = FrequencyCommand(InitFreq).text
    THEN FrequencyCommand(InitFreq).eff
    ELSE NoServer

\* the server after the whole initialization sequence
TunedServer == Apply(NoServer, FrequencyCommand(InitFreq).eff)

\* no call made yet
CallInit ==
    /\ cmd = << >>
    /\ tx = NoTx
    /\ server = NoServer

\* the texts of SpecCodec: every text over CmdBytes up to MaxCmdLen bytes
\* and texts of LongLens bytes
CmdBytes == {18, 83, 255}
LongLens == {125, 126, 127}
Commands ==
    SeqsUpTo(CmdBytes, MaxCmdLen) \cup { [i \in 1..n |-> 83] : n \in LongLens }

-----------------------------------------------------------------------------
(* processAudioPacket *)

MsgPrefix == <<77, 83, 71, 32>>     \* "MSG "

IsMsgPacket(data) == Len(data) > 4 /\ SubSeq(data, 1, 4) = MsgPrefix

\* as ToSample, without the conversion to a signed 16-bit value
ToSample_Unsigned(lo, hi) ==
    [num |-> lo + 256 * hi, den |-> 32768]

\* (int16_t)(lo | (hi << 8)) / 32768.0f
ToSample(lo, hi) ==
    LET u == lo + 256 * hi
    IN  [num |-> IF u >= 32768 THEN u - 65536 ELSE u, den |-> 32768]

\* for (size_t i = 0; i + 1 < len; i += 2); i is the 0-based index of the code
RECURSIVE DecodeSamples(_, _)
DecodeSamples(data, i) ==
    IF i + 1 < Len(data)
    THEN <<ToSample(data[i + 1], data[i + 2])>> \o DecodeSamples(data, i + 2)
    ELSE << >>

\* the callback invocations one call makes: none, or one with the samples
ProcessAudioPacket(data, cbSet) ==
    IF IsMsgPacket(data) THEN << >>
    ELSE LET samples == DecodeSamples(data, 0)
         IN  IF samples # << >> /\ cbSet THEN <<samples>> ELSE << >>

-----------------------------------------------------------------------------
(* receiveLoop: parse and dispatch of one read *)

NoEffect == [cbs |-> << >>, pong |-> << >>, brk |-> FALSE, stop |-> FALSE]

Dispatch(buffer, cbSet) ==
    LET received == Len(buffer) IN
    IF received < 2 THEN NoEffect
    ELSE
      LET opcode == buffer[1] % 16
          masked == buffer[2] >= 128
          len7 == buffer[2] % 128
          ext16 == len7 = 126 /\ received >= 4
          large == len7 = 127 /\ received >= 10
          payloadLen == IF ext16 THEN buffer[3] * 256 + buffer[4] ELSE len7
          headerLen == IF ext16 THEN 4 ELSE 2
      IN
      IF large THEN NoEffect
      ELSE IF ~masked /\ headerLen < received
      THEN LET dataLen == Min(payloadLen, received - headerLen)
               payload == SubSeq(buffer, headerLen + 1, headerLen + dataLen)
           IN  CASE opcode = 2 ->
                      [NoEffect EXCEPT !.cbs = ProcessAudioPacket(payload, cbSet)]
                 [] opcode = 9 ->
                      \* buffer[0] = 0x8A; send(socketFd, buffer, received, 0)
                      [NoEffect EXCEPT !.pong = <<138>> \o Tail(buffer)]
                 [] opcode = 8 ->
                      [NoEffect EXCEPT !.brk = TRUE, !.stop = TRUE]
                 [] OTHER -> NoEffect
      ELSE NoEffect

\* rx before the first recv() of a receive loop.  n: what recv() returned,
\* buf: the bytes read, cbSet: whether a callback was set at that time,
\* cbs: the callback invocations made, pong: the bytes the loop sent,
\* brk: the loop was left
NoRx == [n |-> -2, buf |-> << >>, cbSet |-> FALSE, cbs |-> << >>, pong |-> << >>,
         brk |-> FALSE]

-----------------------------------------------------------------------------
(* What the server may deliver in one read *)

Frame(opcode, masked, payload) ==
    <<128 + opcode, (IF masked THEN 128 ELSE 0) + Len(payload)>> \o payload

\* Close frames: no payload, a 1-byte payload, the status code 1000
CloseFrames == { Frame(8, FALSE, p) : p \in {<< >>, <<7>>, <<3, 232>>} }

\* Ping frames
PingFrames == { Frame(9, FALSE, p) : p \in {<< >>, <<7>>, <<0, 64>>} }

\* Binary frames: audio, and "MSG " status text on the binary opcode
BinaryFrames ==
    { Frame(2, FALSE, p) : p \in { << >>, <<7>>, <<0, 64, 0, 192>>, MsgPrefix,
                                   MsgPrefix \o <<0, 64>> } }

\* Text ("MSG") and Pong frames
OtherFrames == { Frame(1, FALSE, <<77, 83, 71>>), Frame(10, FALSE, <<7>>) }

\* frames with the mask bit set
MaskedFrames == { Frame(op, TRUE, <<7, 7, 7, 7, 0, 64>>) : op \in {2, 8, 9} }

SingleFrames ==
    CloseFrames \cup PingFrames \cup BinaryFrames \cup OtherFrames \cup MaskedFrames

\* a Ping and the next frame arriving in the same read
PingThenFrame ==
    { Frame(9, FALSE, p) \o Frame(2, FALSE, <<0, 64>>) : p \in {<< >>, <<7>>} }

\* a frame header whose 7-bit length field is 127: two header bytes and the
\* eight bytes of the 64-bit length (here a length below 65536)
LargeHeader(opcode, len) ==
    <<128 + opcode, 127, 0, 0, 0, 0, 0, 0, len \div 256, len % 256>>

\* reads that begin with such a frame: the whole frame, the whole frame
\* followed by the next frame of the stream, and reads that end inside the
\* 64-bit length
LargeReads ==
    { LargeHeader(2, 2) \o <<0, 64>>,
      LargeHeader(2, 2) \o <<0, 64>> \o Frame(2, FALSE, <<0, 192>>),
      SubSeq(LargeHeader(2, 2), 1, 6),
      SubSeq(LargeHeader(8, 2), 1, 4) }

Reads == SingleFrames \cup PingThenFrame \cup LargeReads \cup { <<129>> }

\* the binary frames of SpecAudio: every payload over AudioBytes up to
\* MaxPayloadLen bytes, the samples 16384 and -16384, and "MSG " followed by
\* up to MaxPayloadLen - 2 bytes
AudioBytes == {0, 64, 255}

\* reads that end inside a binary frame: after two of four payload bytes,
\* and inside a 16-bit length
PartialReads == { <<130, 4, 0, 64>>, <<130, 126, 0>> }

\* a read that holds two binary frames
DoubleReads == { Frame(2, FALSE, <<0, 64>>) \o Frame(2, FALSE, <<0, 192>>) }

AudioReads ==
    { Frame(2, FALSE, p) : p \in SeqsUpTo(AudioBytes, MaxPayloadLen) }
    \cup { Frame(2, FALSE, <<0, 64, 0, 192>>) }
    \cup { Frame(2, FALSE, MsgPrefix \o t) : t \in SeqsUpTo({0, 64}, MaxPayloadLen - 2) }
    \cup PartialReads
    \cup DoubleReads

-----------------------------------------------------------------------------
(* Host module: the ring buffer between the audio callback and the audio   *)
(* process, and the resampler.  A sample is the numerator of the float     *)
(* over 32768; the phase and the returned value are in units of 1/PhaseDen *)
(* (every rate of EngineRates gives a ratio that is a multiple of it, and  *)
(* float arithmetic is exact on these values).                             *)

\* audioBuffer.size(): 48000 in the module, scaled down
RingCap == 3
\* samples written between two resets
MaxWrites == 5
\* samples one callback invocation delivers
MaxBatch == 2

SourceRate == 12000
PhaseDen == 4
EngineRates == {8000, 12000, 16000, 24000, 48000}
SampleVals == {1, 2}

\* sourceRate / engineRate
ResampleRatio(engineRate) == (SourceRate * PhaseDen) \div engineRate

\* number of samples written and not yet read or skipped
Unread(r, w) == (w - r + RingCap) % RingCap

\* as RingPut, but a full buffer does not push the read position
RingPut_NoSkip(ring, s) ==
    [buf |-> [ring.buf EXCEPT ![ring.w] = s],
     w |-> (ring.w + 1) % RingCap,
     r |-> ring.r]

\* as RingPut, but a full buffer pushes the read position by two
RingPut_SkipTwo(ring, s) ==
    LET w1 == (ring.w + 1) % RingCap IN
    [buf |-> [ring.buf EXCEPT ![ring.w] = s],
     w |-> w1,
     r |-> IF w1 = ring.r THEN (ring.r + 2) % RingCap ELSE ring.r]

\* one iteration of the callback's loop
RingPut(ring, s) ==
    LET w1 == (ring.w + 1) % RingCap IN
    [buf |-> [ring.buf EXCEPT ![ring.w] = s],
     w |-> w1,
     r |-> IF w1 = ring.r THEN (ring.r + 1) % RingCap ELSE ring.r]

RECURSIVE RingPutAll(_, _, _)
RingPutAll(ring, samples, i) ==
    IF i > Len(samples) THEN ring
    ELSE RingPutAll(RingPut(ring, samples[i]), samples, i + 1)

\* the slots the loop reads when it consumes n samples from position r
Taken(buf, r, n) == [i \in 1..n |-> buf[(r + i - 1) % RingCap]]

\* as Consume, but lastSample keeps its value
Consume_KeepLast(buf, r, w, last, advance) ==
    LET n == Min(advance, Unread(r, w)) IN
    [r |-> (r + n) % RingCap, last |-> last, n |-> n, took |-> Taken(buf, r, n)]

\* as Consume, but each sample is read from the slot after the read position
Consume_FromNext(buf, r, w, last, advance) ==
    LET n == Min(advance, Unread(r, w))
        took == Taken(buf, (r + 1) % RingCap, n)
    IN  [r |-> (r + n) % RingCap,
         last |-> IF n > 0 THEN took[n] ELSE last,
         n |-> n,
         took |-> took]

\* as Consume, but a tick consumes a sample also when advance is zero
Consume_AtLeastOne(buf, r, w, last, advance) ==
    LET n == Min(IF advance > 0 THEN advance ELSE 1, Unread(r, w))
        took == Taken(buf, r, n)
    IN  [r |-> (r + n) % RingCap,
         last |-> IF n > 0 THEN took[n] ELSE last,
         n |-> n,
         took |-> took]

\* the loop that advances the read position by up to advance samples: the
\* new read position, lastSample, and the samples consumed
Consume(buf, r, w, last, advance) ==
    LET n == Min(advance, Unread(r, w))
        took == Taken(buf, r, n)
    IN  [r |-> (r + n) % RingCap,
         last |-> IF n > 0 THEN took[n] ELSE last,
         n |-> n,
         took |-> took]

\* as Advance, but the read position advances by one sample at most
Advance_AtMostOne(phase1) == IF phase1 >= PhaseDen THEN 1 ELSE 0

\* int advance = (int)resamplePhase, when the phase has reached 1
Advance(phase1) == IF phase1 >= PhaseDen THEN phase1 \div PhaseDen ELSE 0

\* as PhaseAfter, but the phase is reduced by the samples consumed
PhaseAfter_ByConsumed(phase1, advance, n) == phase1 - n * PhaseDen

\* resamplePhase -= advance, whatever number n of samples the loop consumes
PhaseAfter(phase1, advance, n) == phase1 - advance * PhaseDen

\* as PeekNext, but an empty buffer gives silence
PeekNext_Silence(buf, r, w, last) == IF r # w THEN buf[r] ELSE 0

\* nextSample
PeekNext(buf, r, w, last) == IF r # w THEN buf[r] ELSE last

\* the mode parameter is a float; the model keeps it in halves
ModeDen == 2
\* configParam(MODE_PARAM, 0, 4, 0) and values a patch could hold beyond it
ModeParamVals == {-3, 0, 3, 4, 6, 10}

\* const char* modes[] = {"am", "fm", "usb", "lsb", "cw"}
Modes == <<"am", "fm", "usb", "lsb", "cw">>

\* (int)mode: truncation toward zero
TruncMode(m) == IF m >= 0 THEN m \div ModeDen ELSE -((-m) \div ModeDen)

\* std::min(4, std::max(0, (int)mode))
ModeIdx(m) ==
    LET t == TruncMode(m)
        lo == IF t < 0 THEN 0 ELSE t
    IN  Min(4, lo)

\* NUM_PRESETS: 8 in the module, scaled down
NumPresets == 2
Slots == 0..(NumPresets - 1)

\* configParam(FREQ_PARAM, 0, 30000000, 7055000)
DefaultFreq == 7055000
FreqVals == {7055000, 14230000}

\* dsp::SchmittTrigger::process(in): fires once when the input rises to 1,
\* and is armed again when the input is back at 0
TriggerProcess(high, in) ==
    IF high THEN [high |-> ~(in <= 0), fired |-> FALSE]
    ELSE IF in >= 1 THEN [high |-> TRUE, fired |-> TRUE]
    ELSE [high |-> FALSE, fired |-> FALSE]

\* as HandlePresetPress, but a saved slot is overwritten
HandlePresetPress_Overwrite(st, preset, currentFreq) ==
    [st EXCEPT !.pf[preset] = currentFreq, !.ps[preset] = TRUE]

\* handlePresetPress(preset, currentFreq) on st = [freq, pf, ps]
HandlePresetPress(st, preset, currentFreq) ==
    IF ~st.ps[preset]
    THEN [st EXCEPT !.pf[preset] = currentFreq, !.ps[preset] = TRUE]
    ELSE [st EXCEPT !.freq = st.pf[preset]]

\* the iterations i, i + 1, ... of the preset loop of process(); gateFired:
\* the slots whose gate input is connected and whose gate trigger fires
RECURSIVE PresetLoop(_, _, _, _)
PresetLoop(st, i, currentFreq, gateFired) ==
    IF i >= NumPresets THEN st
    ELSE
      LET t == TriggerProcess(st.trig[i], presetButtons[i])
          s1 == [st EXCEPT !.trig[i] = t.high]
          s2 == IF t.fired
                THEN LET h == HandlePresetPress(s1, i, currentFreq) IN
                     [h EXCEPT !.log = Append(s1.log,
                                   [slot |-> i, cur |-> currentFreq,
                                    wasSaved |-> s1.ps[i],
                                    paramBefore |-> s1.freq, paramAfter |-> h.freq,
                                    storedBefore |-> s1.pf[i], storedAfter |-> h.pf[i],
                                    savedAfter |-> h.ps[i]])]
                ELSE s1
          s3 == IF i \in gateFired /\ s2.ps[i]
                THEN [s2 EXCEPT !.freq = s2.pf[i]]
                ELSE s2
      IN  PresetLoop(s3, i + 1, currentFreq, gateFired)

\* the longest run of ticks that is followed
MaxTicks == 8

NoRun == [rate |-> 0, ticks |-> 0, consumed |-> 0]

\* the run after a tick at engineRate that started at phase, was to advance
\* by advance samples and consumed n
RunAfter(r, phase, engineRate, advance, n) ==
    LET base == IF r.ticks > 0 /\ r.rate = engineRate /\ r.ticks < MaxTicks THEN r
                ELSE IF phase = 0 THEN [NoRun EXCEPT !.rate = engineRate]
                ELSE NoRun
    IN  IF base.rate = 0 \/ n # advance THEN NoRun
        ELSE [rate |-> engineRate, ticks |-> base.ticks + 1,
              consumed |-> base.consumed + n]

NoTick ==
    [rate |-> 0, empty |-> FALSE, had |-> FALSE, rp |-> 0, n |-> 0, out |-> 0,
     phase0 |-> 0, acc |-> 0, took |-> << >>, prevIdx |-> 0]

\* the module as constructed
\* the threads that use the buffer: the receive thread runs the audio
\* callback, the engine thread runs process() and reset, the user interface
\* thread runs the context menu
Threads == {"receive", "engine", "ui"}

\* the sizes the context menu offers: 0.5, 1, 2 and 5 seconds
BufferSizes == {1, 2, 4, 10}

\* float bufferSize = 1.0f
DefaultBufferSize == 2

HostInit ==
    /\ audioBuffer = [i \in 0..(RingCap - 1) |-> 0]
    /\ readPos = 0
    /\ writePos = 0
    /\ lastSample = 0
    /\ resamplePhase = 0
    /\ written = << >>
    /\ lastIdx = 0
    /\ tick = NoTick
    /\ run = NoRun
    /\ modeParam = 0
    /\ lastMode = -ModeDen
    /\ lastFreq = 0
    /\ freqParam = DefaultFreq
    /\ presetFrequencies = [i \in Slots |-> 0]
    /\ presetSaved = [i \in Slots |-> FALSE]
    /\ presetButtons = [i \in Slots |-> 0]
    /\ presetTriggers = [i \in Slots |-> FALSE]
    /\ firstFreq = [i \in Slots |-> 0]
    /\ holds = [i \in Slots |-> 0]
    /\ presses = << >>
    /\ bufferMutex = "free"
    /\ lockPc = [t \in Threads |-> "idle"]
    /\ bufferSize = DefaultBufferSize
    /\ bufferLen = DefaultBufferSize
    /\ v2ReadPos = 0
    /\ v2WritePos = 0
    /\ callbackMutex = "free"

\* the audio callback the module installs, invoked with samples
RingWrite(samples) ==
    LET ring == RingPutAll([buf |-> audioBuffer, w |-> writePos, r |-> readPos],
                           samples, 1)
    IN
    /\ Len(written) + Len(samples) <= MaxWrites
    /\ audioBuffer' = ring.buf
    /\ writePos' = ring.w
    /\ readPos' = ring.r
    /\ written' = written \o samples
    /\ tick' = NoTick
    /\ UNCHANGED <<lastSample, resamplePhase, lastIdx, run, paramVars, presetVars,
                   lockVars>>

\* getResampledAudio(engineRate)
GetResampledAudio(engineRate) ==
    LET phase1 == resamplePhase + ResampleRatio(engineRate)
        advance == Advance(phase1)
        c == Consume(audioBuffer, readPos, writePos, lastSample, advance)
        phase2 == PhaseAfter(phase1, advance, c.n)
        nextSample == PeekNext(audioBuffer, c.r, writePos, c.last)
    IN
    /\ resamplePhase' = phase2
    /\ readPos' = c.r
    /\ lastSample' = c.last
    /\ lastIdx' = IF c.n > 0
                  THEN Len(written) - Unread(readPos, writePos) + c.n
                  ELSE lastIdx
    /\ tick' = [rate |-> engineRate,
                empty |-> readPos = writePos,
                had |-> lastIdx > 0,
                rp |-> readPos,
                n |-> c.n,
                out |-> PhaseDen * c.last + (nextSample - c.last) * phase2,
                phase0 |-> resamplePhase,
                acc |-> phase1,
                took |-> c.took,
                prevIdx |-> lastIdx]
    /\ run' = RunAfter(run, resamplePhase, engineRate, advance, c.n)
    /\ UNCHANGED <<audioBuffer, writePos, written, paramVars, presetVars, lockVars>>

\* onReset()
OnReset ==
    /\ audioBuffer' = [i \in 0..(RingCap - 1) |-> 0]
    /\ readPos' = 0
    /\ writePos' = 0
    /\ lastSample' = 0
    /\ resamplePhase' = 0
    /\ written' = << >>
    /\ lastIdx' = 0
    /\ tick' = NoTick
    /\ run' = NoRun
    /\ presetFrequencies' = [i \in Slots |-> 0]
    /\ presetSaved' = [i \in Slots |-> FALSE]
    /\ firstFreq' = [i \in Slots |-> 0]
    /\ presses' = << >>
    /\ UNCHANGED <<paramVars, freqParam, presetButtons, presetTriggers, holds, lockVars>>

-----------------------------------------------------------------------------
ClientInit ==
    /\ connected = FALSE
    /\ shouldStop = FALSE
    /\ socketFd = -1
    /\ joinable = FALSE
    /\ callbackSet = FALSE
    /\ openFds = {}
    /\ terminated = FALSE
    /\ callerPc = "idle"
    /\ rlPc = "none"
    /\ connStep = 0
    /\ connSent = << >>
    /\ joinedThread = FALSE
    /\ hs = [kind |-> "none", resp |-> << >>, ok |-> FALSE, fd |-> -1]
    /\ lastOp = "none"
    /\ prevOp = "none"
    /\ lastRet = FALSE
    /\ rx = NoRx

Init == ClientInit /\ HostInit /\ CallInit

-----------------------------------------------------------------------------
(* Caller thread *)

\* setAudioCallback, called as the modules and the tests do: before the
\* receive loop of a session runs
SetAudioCallback(b) ==
    /\ ~terminated
    /\ UNCHANGED <<hostVars, callVars>>
    /\ callerPc = "idle"
    /\ rlPc \in {"none", "exited"}
    /\ callbackSet # b
    /\ callbackSet' = b
    /\ UNCHANGED <<connected, shouldStop, socketFd, joinable, openFds, terminated,
                   rlPc, callerVars, rx>>

\* connect() up to and including the start of the receive thread.  The callers
\* invoke it only while isConnected() is false.
Connect(kind, resp) ==
    /\ ~terminated
    /\ UNCHANGED <<hostVars, cmd, tx>>
    /\ \* a new connection is a new session at the server
       server' = IF kind = "response" /\ StrStr101(resp) /\ ~joinable
                 THEN NoServer ELSE server
    /\ callerPc = "idle"
    /\ ~connected
    /\ lastOp' = "connect"
    /\ prevOp' = lastOp
    /\ connStep' = 0
    /\ connSent' = << >>
    /\ UNCHANGED <<callbackSet, joinedThread>>
    /\ \* the receive loop's buffer is a local of the thread connect() starts
       rx' = IF kind = "response" /\ StrStr101(resp) /\ ~joinable THEN NoRx ELSE rx
    /\ CASE kind = "resolveFail" ->
              /\ hs' = [kind |-> kind, resp |-> << >>, ok |-> FALSE, fd |-> -1]
              /\ lastRet' = FALSE
              /\ UNCHANGED <<connected, shouldStop, socketFd, joinable, openFds,
                             terminated, callerPc, rlPc>>
         [] kind = "socketFail" ->
              /\ hs' = [kind |-> kind, resp |-> << >>, ok |-> FALSE, fd |-> -1]
              /\ socketFd' = -1
              /\ lastRet' = FALSE
              /\ UNCHANGED <<connected, shouldStop, joinable, openFds,
                             terminated, callerPc, rlPc>>
         [] kind \in {"connectFail", "recvFail"} ->
              /\ NewFd # -1
              /\ hs' = [kind |-> kind, resp |-> << >>, ok |-> FALSE, fd |-> NewFd]
              /\ socketFd' = -1
              /\ lastRet' = FALSE
              /\ UNCHANGED <<connected, shouldStop, joinable, openFds,
                             terminated, callerPc, rlPc>>
         [] kind = "response" /\ ~StrStr101(resp) ->
              /\ NewFd # -1
              /\ hs' = [kind |-> kind, resp |-> resp, ok |-> FALSE, fd |-> NewFd]
              /\ socketFd' = -1
              /\ lastRet' = FALSE
              /\ UNCHANGED <<connected, shouldStop, joinable, openFds,
                             terminated, callerPc, rlPc>>
         [] kind = "response" /\ StrStr101(resp) ->
              /\ NewFd # -1
              /\ hs' = [kind |-> kind, resp |-> resp, ok |-> TRUE, fd |-> NewFd]
              /\ socketFd' = NewFd
              /\ openFds' = openFds \cup {NewFd}
              /\ connected' = TRUE
              /\ shouldStop' = FALSE
              /\ UNCHANGED lastRet
              /\ IF joinable
                 THEN \* std::thread::operator= on a joinable thread calls
                      \* std::terminate(): the call never returns
                      /\ terminated' = TRUE
                      /\ callerPc' = "aborted"
                      /\ UNCHANGED <<joinable, rlPc>>
                 ELSE /\ joinable' = TRUE
                      /\ rlPc' = "top"
                      /\ callerPc' = "conn_init"
                      /\ UNCHANGED terminated

\* one sendWebSocketFrame of connect()'s command sequence (the pacing sleeps
\* let the receive loop run in between)
ConnectSendInit ==
    /\ ~terminated
    /\ UNCHANGED <<hostVars, cmd, tx>>
    /\ callerPc = "conn_init"
    /\ connStep < Len(InitCommands)
    /\ server' = IF CanSend(InitCommands[connStep + 1])
                 THEN Apply(server, InitEffect(InitCommands[connStep + 1]))
                 ELSE server
    /\ connStep' = connStep + 1
    /\ connSent' = IF CanSend(InitCommands[connStep + 1])
                   THEN Append(connSent, InitCommands[connStep + 1])
                   ELSE connSent
    /\ UNCHANGED <<connected, shouldStop, socketFd, joinable, callbackSet, openFds,
                   terminated, callerPc, rlPc, hs, lastOp, prevOp, lastRet,
                   joinedThread, rx>>

\* return true
ConnectReturn ==
    /\ ~terminated
    /\ UNCHANGED <<hostVars, callVars>>
    /\ callerPc = "conn_init"
    /\ connStep = Len(InitCommands)
    /\ callerPc' = "idle"
    /\ lastRet' = TRUE
    /\ UNCHANGED <<connected, shouldStop, socketFd, joinable, callbackSet, openFds,
                   terminated, rlPc, connStep, connSent, hs, lastOp, prevOp,
                   joinedThread, rx>>

\* disconnect(): shouldStop = true; connected = false
DisconnectFlags ==
    /\ ~terminated
    /\ UNCHANGED <<hostVars, callVars>>
    /\ callerPc = "idle"
    /\ shouldStop' = TRUE
    /\ connected' = FALSE
    /\ callerPc' = "disc_close"
    /\ lastOp' = "disconnect"
    /\ prevOp' = lastOp
    /\ UNCHANGED <<socketFd, joinable, callbackSet, openFds, terminated, rlPc,
                   connStep, connSent, hs, lastRet, joinedThread, rx>>

\* as DisconnectClose, but the handle keeps the closed descriptor
DisconnectClose_KeepHandle ==
    /\ ~terminated
    /\ UNCHANGED <<hostVars, callVars>>
    /\ callerPc = "disc_close"
    /\ openFds' = openFds \ {socketFd}
    /\ callerPc' = "disc_join"
    /\ UNCHANGED <<connected, shouldStop, socketFd, joinable, callbackSet, terminated,
                   rlPc, connStep, connSent, hs, lastOp, prevOp, lastRet,
                   joinedThread, rx>>

\* disconnect(): if (socketFd >= 0) { close(socketFd); socketFd = -1; }
DisconnectClose ==
    /\ ~terminated
    /\ UNCHANGED <<hostVars, callVars>>
    /\ callerPc = "disc_close"
    /\ IF socketFd >= 0
       THEN /\ openFds' = openFds \ {socketFd}
            /\ socketFd' = -1
       ELSE UNCHANGED <<openFds, socketFd>>
    /\ callerPc' = "disc_join"
    /\ UNCHANGED <<connected, shouldStop, joinable, callbackSet, terminated, rlPc,
                   connStep, connSent, hs, lastOp, prevOp, lastRet, joinedThread, rx>>

\* as DisconnectJoin, but the thread is detached instead of joined
DisconnectJoin_Detach ==
    /\ ~terminated
    /\ UNCHANGED <<hostVars, callVars>>
    /\ callerPc = "disc_join"
    /\ joinable' = FALSE
    /\ joinedThread' = joinable
    /\ callerPc' = "idle"
    /\ UNCHANGED <<connected, shouldStop, socketFd, callbackSet, openFds, terminated,
                   rlPc, connStep, connSent, hs, lastOp, prevOp, lastRet, rx>>

\* disconnect(): if (receiveThread.joinable()) receiveThread.join(); return.
\* join() returns when the thread function has returned.
DisconnectJoin ==
    /\ ~terminated
    /\ UNCHANGED <<hostVars, callVars>>
    /\ callerPc = "disc_join"
    /\ joinable => rlPc = "exited"
    /\ joinable' = FALSE
    /\ joinedThread' = joinable
    /\ callerPc' = "idle"
    /\ UNCHANGED <<connected, shouldStop, socketFd, callbackSet, openFds, terminated,
                   rlPc, connStep, connSent, hs, lastOp, prevOp, lastRet, rx>>

-----------------------------------------------------------------------------
(* Tuning *)

\* as KiwiMode, but the mode name is passed through
KiwiMode_Passthrough(mode) == mode

\* setMode: the KiwiSDR name of a mode
KiwiMode(mode) ==
    IF mode = "usb" THEN "usb"
    ELSE IF mode = "lsb" THEN "lsb"
    ELSE IF mode = "fm" THEN "nbfm"
    ELSE IF mode = "cw" THEN "cw"
    ELSE "am"

\* the text setMode builds
ModeCommand(mode) == "SET mod=" \o KiwiMode(mode) \o " low_cut=-4000 high_cut=4000"

\* the record of a call of the setter op with argument arg that built text
\* (the setters return nothing)
SendText(op, arg, text) ==
    [op |-> op, arg |-> arg, conn |-> connected,
     ret |-> FALSE,
     called |-> CanSend(text),
     text |-> IF CanSend(text) THEN text ELSE "",
     bytes |-> << >>]

\* as Setter, but without the early return of a client that is not connected
Setter_NoGuard(op, arg, c) ==
    /\ ~terminated
    /\ callerPc = "idle"
    /\ tx' = SendText(op, arg, c.text)
    /\ server' = IF CanSend(c.text) THEN Apply(server, c.eff) ELSE server
    /\ UNCHANGED <<connected, shouldStop, socketFd, joinable, callbackSet, openFds,
                   terminated, callerVars, rlPc, rx, ringVars, lockVars, cmd>>

\* a setter called as op with argument arg: if (!connected) return; then the
\* command c goes to sendWebSocketFrame, and what it carries takes effect
\* at the server when it is sent
Setter(op, arg, c) ==
    /\ ~terminated
    /\ callerPc = "idle"
    /\ tx' = IF connected
             THEN SendText(op, arg, c.text)
             ELSE [NoTx EXCEPT !.op = op, !.arg = arg]
    /\ server' = IF connected /\ CanSend(c.text) THEN Apply(server, c.eff) ELSE server
    /\ UNCHANGED <<connected, shouldStop, socketFd, joinable, callbackSet, openFds,
                   terminated, callerVars, rlPc, rx, ringVars, lockVars, cmd>>

\* what the setMode command carries
ModeEffect(mode) == [mode |-> KiwiMode(mode), low |-> -4000, high |-> 4000, freq |-> 0]

\* WebSDRClient::setMode(mode), as the call named op
SetModeAs(op, mode) ==
    /\ Setter(op, mode, [text |-> ModeCommand(mode), eff |-> ModeEffect(mode)])
    /\ UNCHANGED presetVars

\* WebSDRClient::setFrequency(freq), as the call named op
SetFrequencyAs(op, freq) == Setter(op, FixedKhz(freq), FrequencyCommand(freq))

\* setFrequency called directly
SetFrequency(freq) ==
    /\ SetFrequencyAs("setFrequency", freq)
    /\ UNCHANGED <<paramVars, presetVars>>

\* setBandwidth called directly
SetBandwidth(bw) ==
    /\ Setter("setBandwidth", ToString(bw), BandwidthCommand(bw))
    /\ UNCHANGED <<paramVars, presetVars>>

\* the change of the frequency parameter that makes process() tune, in Hz
FreqThreshold == 100

Abs(x) == IF x < 0 THEN -x ELSE x

\* process(): update frequency if changed
ProcessFreq ==
    /\ Abs(freqParam - lastFreq) > FreqThreshold
    /\ SetFrequencyAs("processFreq", freqParam)
    /\ lastFreq' = freqParam
    /\ UNCHANGED <<modeParam, lastMode, presetVars>>

\* setMode called directly
SetMode(mode) ==
    /\ SetModeAs("setMode", mode)
    /\ UNCHANGED paramVars

\* the user turns the mode knob
SetModeParam(m) ==
    /\ modeParam # m
    /\ modeParam' = m
    /\ UNCHANGED <<lastMode, lastFreq, ringVars, presetVars, lockVars, callVars>>
    /\ UNCHANGED <<connected, shouldStop, socketFd, joinable, callbackSet, openFds,
                   terminated, callerVars, rlPc, rx>>

\* process(): update mode if changed
ProcessMode ==
    /\ modeParam # lastMode
    /\ SetModeAs("processMode", Modes[ModeIdx(modeParam) + 1])
    /\ lastMode' = modeParam
    /\ UNCHANGED <<modeParam, lastFreq>>

-----------------------------------------------------------------------------
(* Presets *)

\* the user turns the frequency knob
SetFreqParam(f) ==
    /\ freqParam # f
    /\ freqParam' = f
    /\ presses' = << >>
    /\ UNCHANGED <<presetFrequencies, presetSaved, presetButtons, presetTriggers,
                   firstFreq, holds>>

\* the user pushes the button of slot i down
PressButton(i) ==
    /\ presetButtons[i] = 0
    /\ presetButtons' = [presetButtons EXCEPT ![i] = 1]
    /\ holds' = [holds EXCEPT ![i] = 0]
    /\ presses' = << >>
    /\ UNCHANGED <<freqParam, presetFrequencies, presetSaved, presetTriggers,
                   firstFreq>>

\* the user lets the button of slot i go
ReleaseButton(i) ==
    /\ presetButtons[i] = 1
    /\ presetButtons' = [presetButtons EXCEPT ![i] = 0]
    /\ presses' = << >>
    /\ UNCHANGED <<freqParam, presetFrequencies, presetSaved, presetTriggers,
                   firstFreq, holds>>

\* process(): handle preset buttons and gates
ProcessPresets(gateFired) ==
    LET st == PresetLoop([freq |-> freqParam, pf |-> presetFrequencies,
                          ps |-> presetSaved, trig |-> presetTriggers,
                          log |-> << >>],
                         0, freqParam, gateFired)
        pressed == { st.log[k].slot : k \in 1..Len(st.log) }
    IN
    /\ freqParam' = st.freq
    /\ presetFrequencies' = st.pf
    /\ presetSaved' = st.ps
    /\ presetTriggers' = st.trig
    /\ presses' = st.log
    /\ firstFreq' = [i \in Slots |->
                        IF i \in pressed /\ firstFreq[i] = 0 THEN freqParam
                        ELSE firstFreq[i]]
    /\ holds' = [i \in Slots |->
                    IF i \in pressed THEN Min(2, holds[i] + 1) ELSE holds[i]]
    /\ UNCHANGED presetButtons

-----------------------------------------------------------------------------
(* Receive-loop thread *)

\* while (!shouldStop && socketFd >= 0)
RlTop ==
    /\ ~terminated
    /\ UNCHANGED <<hostVars, callVars>>
    /\ rlPc = "top"
    /\ rlPc' = IF ~shouldStop /\ socketFd >= 0 THEN "select" ELSE "exiting"
    /\ UNCHANGED <<connected, shouldStop, socketFd, joinable, callbackSet, openFds,
                   terminated, callerVars, rx>>

\* FD_SET(socketFd, &readfds) and select(..., 100 ms) > 0
RlSelect ==
    /\ ~terminated
    /\ UNCHANGED <<hostVars, callVars>>
    /\ rlPc = "select"
    /\ \/ \* readable, or not: timeout, or an error on a descriptor that
          \* disconnect() closed meanwhile
          /\ socketFd >= 0
          /\ \E ready \in BOOLEAN :
                /\ ready => socketFd \in openFds
                /\ rlPc' = IF ready THEN "recv" ELSE "top"
          /\ UNCHANGED terminated
       \/ \* disconnect() set socketFd = -1 after the loop test: FD_SET(-1, ...)
          \* is undefined.  The fortified FD_SET of glibc aborts the process;
          \* the plain macro sets a bit select(0, ...) never looks at, and
          \* select times out
          /\ socketFd < 0
          /\ \/ terminated' = TRUE /\ UNCHANGED rlPc
             \/ terminated' = FALSE /\ rlPc' = "top"
    /\ UNCHANGED <<connected, shouldStop, socketFd, joinable, callbackSet, openFds,
                   callerVars, rx>>

\* recv() and the dispatch of what it returned; the reads come from S
RlRecvIn(S) ==
    /\ ~terminated
    /\ UNCHANGED <<hostVars, callVars>>
    /\ rlPc = "recv"
    /\ \/ \* received < 0: read error (also on a descriptor closed meanwhile)
          /\ rx' = [NoRx EXCEPT !.n = -1, !.brk = TRUE]
          /\ rlPc' = "exiting"
          /\ UNCHANGED shouldStop
       \/ \* received == 0: the peer closed
          /\ socketFd \in openFds
          /\ rx' = [NoRx EXCEPT !.n = 0, !.brk = TRUE]
          /\ rlPc' = "exiting"
          /\ UNCHANGED shouldStop
       \/ \E buffer \in S :
             LET eff == Dispatch(buffer, callbackSet) IN
             /\ socketFd \in openFds
             /\ rx' = [n |-> Len(buffer), buf |-> buffer, cbSet |-> callbackSet,
                       cbs |-> eff.cbs, pong |-> eff.pong, brk |-> eff.brk]
             /\ shouldStop' = IF eff.stop THEN TRUE ELSE shouldStop
             /\ rlPc' = IF eff.brk THEN "exiting" ELSE "top"
    /\ UNCHANGED <<connected, socketFd, joinable, callbackSet, openFds,
                   terminated, callerVars>>

RlRecv == RlRecvIn(Reads)

RlRecvAudio == RlRecvIn(AudioReads)

\* as RlExit, but the connection state is left as it is
RlExit_KeepConnected ==
    /\ ~terminated
    /\ UNCHANGED <<hostVars, callVars>>
    /\ rlPc = "exiting"
    /\ rlPc' = "exited"
    /\ UNCHANGED <<connected, shouldStop, socketFd, joinable, callbackSet, openFds,
                   terminated, callerVars, rx>>

\* after the loop: connected = false; the thread function returns
RlExit ==
    /\ ~terminated
    /\ UNCHANGED <<hostVars, callVars>>
    /\ rlPc = "exiting"
    /\ connected' = FALSE
    /\ rlPc' = "exited"
    /\ UNCHANGED <<shouldStop, socketFd, joinable, callbackSet, openFds,
                   terminated, callerVars, rx>>

-----------------------------------------------------------------------------
Next ==
    \/ \E b \in BOOLEAN : SetAudioCallback(b)
    \/ \E kind \in ConnectOutcomes \ {"response"} : Connect(kind, << >>)
    \/ \E resp \in Responses : Connect("response", resp)
    \/ ConnectSendInit
    \/ ConnectReturn
    \/ DisconnectFlags
    \/ DisconnectClose
    \/ DisconnectJoin
    \/ RlTop
    \/ RlSelect
    \/ RlRecv
    \/ RlExit

Spec == Init /\ [][Next]_vars

-----------------------------------------------------------------------------
(* The receive loop of a running session fed with binary frames: the state *)
(* after connect() returned true, with or without a callback set before.   *)

ClientStreaming ==
    /\ connected = TRUE
    /\ shouldStop = FALSE
    /\ socketFd = 1
    /\ joinable = TRUE
    /\ callbackSet \in BOOLEAN
    /\ openFds = {1}
    /\ terminated = FALSE
    /\ callerPc = "idle"
    /\ rlPc = "top"
    /\ connStep = Len(InitCommands)
    /\ connSent = InitCommands
    /\ joinedThread = FALSE
    /\ hs = [kind |-> "response", resp |-> <<T101>>, ok |-> TRUE, fd |-> 1]
    /\ lastOp = "connect"
    /\ prevOp = "none"
    /\ lastRet = TRUE
    /\ rx = NoRx

InitAudio ==
    /\ ClientStreaming
    /\ HostInit
    /\ cmd = << >>
    /\ tx = NoTx
    /\ server = TunedServer

NextAudio ==
    \/ RlTop
    \/ RlSelect
    \/ RlRecvAudio
    \/ RlExit

SpecAudio == InitAudio /\ [][NextAudio]_vars

-----------------------------------------------------------------------------
(* The host module's audio path: the callback writes, the audio process    *)
(* reads through the resampler, the user resets.  The client is left as    *)
(* constructed.                                                            *)

ClientIdle ==
    UNCHANGED <<connected, shouldStop, socketFd, joinable, callbackSet, openFds,
                terminated, callerPc, rlPc, connStep, connSent, hs, lastOp,
                prevOp, lastRet, joinedThread, rx, callVars>>

RingWriteStep ==
    \E samples \in SeqsUpTo(SampleVals, MaxBatch) \ {<< >>} :
        RingWrite(samples) /\ ClientIdle

ResampleStep ==
    \E engineRate \in EngineRates : GetResampledAudio(engineRate) /\ ClientIdle

ResetStep == OnReset /\ ClientIdle

NextRing ==
    \/ RingWriteStep
    \/ ResampleStep
    \/ ResetStep

SpecRing == Init /\ [][NextRing]_vars

-----------------------------------------------------------------------------
(* sendWebSocketFrame applied to a text, on a client as constructed        *)
(* (socketFd = -1) or streaming (socketFd valid)                           *)

InitCodec ==
    /\ ClientInit \/ ClientStreaming
    /\ HostInit
    /\ cmd \in Commands
    /\ tx = NoTx
    /\ server = IF connected THEN TunedServer ELSE NoServer

SendFrameStep(sendOk) ==
    LET r == SendWebSocketFrame(socketFd, cmd, sendOk) IN
    /\ tx.op = "none"
    /\ tx' = [op |-> "send", arg |-> "", conn |-> connected, ret |-> r.ret,
              called |-> r.called, text |-> "", bytes |-> r.bytes]
    /\ UNCHANGED <<connected, shouldStop, socketFd, joinable, callbackSet, openFds,
                   terminated, callerPc, rlPc, connStep, connSent, hs, lastOp,
                   prevOp, lastRet, joinedThread, rx, hostVars, cmd, server>>

NextCodec == \E sendOk \in BOOLEAN : SendFrameStep(sendOk)

SpecCodec == InitCodec /\ [][NextCodec]_vars

-----------------------------------------------------------------------------
(* The tuning calls over the life of a client: connect, the receive loop   *)
(* until the peer closes, disconnect, and in between setMode called        *)
(* directly and by the module's process()                                  *)

ModeInputs == {"am", "fm", "usb", "lsb", "cw", "wfm"}

TuneReads == { Frame(8, FALSE, <<3, 232>>) }

RlRecvTune == RlRecvIn(TuneReads)

NextTune ==
    \/ Connect("response", <<T101>>)
    \/ ConnectSendInit
    \/ ConnectReturn
    \/ DisconnectFlags
    \/ DisconnectClose
    \/ DisconnectJoin
    \/ RlTop
    \/ RlSelect
    \/ RlRecvTune
    \/ RlExit
    \/ \E mode \in ModeInputs : SetMode(mode)
    \/ \E m \in ModeParamVals : SetModeParam(m)
    \/ ProcessMode

SpecTune == Init /\ [][NextTune]_vars

-----------------------------------------------------------------------------
(* The three setters called directly over the life of a client: before     *)
(* connect, after a failed connect, while connected, after the peer closed *)
(* and after disconnect                                                    *)

SetModes == {"usb", "fm"}

\* bandwidths in Hz
Bandwidths == {2400}

NextSet ==
    \/ Connect("response", <<T101>>)
    \/ Connect("connectFail", << >>)
    \/ ConnectSendInit
    \/ ConnectReturn
    \/ DisconnectFlags
    \/ DisconnectClose
    \/ DisconnectJoin
    \/ RlTop
    \/ RlSelect
    \/ RlRecvTune
    \/ RlExit
    \/ \E freq \in FreqVals : SetFrequency(freq)
    \/ \E mode \in SetModes : SetMode(mode)
    \/ \E bw \in Bandwidths : SetBandwidth(bw)

SpecSet == Init /\ [][NextSet]_vars

-----------------------------------------------------------------------------
(* The module tunes the client: the user turns the frequency knob, and     *)
(* process(), called by the engine for every sample, tunes when the        *)
(* parameter has moved; the client connects, is disconnected and           *)
(* connects again.  The threads are scheduled fairly.                      *)

\* the default, a frequency within the threshold of it, and another band
TuneFreqs == {7055000, 7055050, 14230000}

TurnFreqStep ==
    /\ \E f \in TuneFreqs : SetFreqParam(f)
    /\ ClientIdle
    /\ UNCHANGED <<ringVars, paramVars, lockVars>>

NextFreq ==
    \/ Connect("response", <<T101>>)
    \/ ConnectSendInit
    \/ ConnectReturn
    \/ DisconnectFlags
    \/ DisconnectClose
    \/ DisconnectJoin
    \/ RlTop
    \/ RlSelect
    \/ RlRecvTune
    \/ RlExit
    \/ TurnFreqStep
    \/ ProcessFreq

FairnessFreq ==
    /\ WF_vars(ConnectSendInit)
    /\ WF_vars(ConnectReturn)
    /\ WF_vars(DisconnectClose)
    /\ WF_vars(DisconnectJoin)
    /\ WF_vars(RlTop)
    /\ WF_vars(RlSelect)
    /\ WF_vars(RlRecvTune)
    /\ WF_vars(RlExit)
    /\ WF_vars(ProcessFreq)

SpecFreq == Init /\ [][NextFreq]_vars /\ FairnessFreq

-----------------------------------------------------------------------------
(* The preset slots: the user turns the frequency knob and works the       *)
(* buttons, gates arrive, the module processes and is reset                *)

RestIdle == ClientIdle /\ UNCHANGED <<ringVars, paramVars, lockVars>>

SetFreqStep == \E f \in FreqVals : SetFreqParam(f) /\ RestIdle

PressStep == \E i \in Slots : PressButton(i) /\ RestIdle

ReleaseStep == \E i \in Slots : ReleaseButton(i) /\ RestIdle

ProcessPresetsStep ==
    \E gateFired \in SUBSET Slots : ProcessPresets(gateFired) /\ RestIdle

NextPreset ==
    \/ SetFreqStep
    \/ PressStep
    \/ ReleaseStep
    \/ ProcessPresetsStep
    \/ ResetStep

SpecPreset == Init /\ [][NextPreset]_vars

-----------------------------------------------------------------------------
(* Cancellation: one session after another, each ended by disconnect() or  *)
(* by the peer, with every thread scheduled fairly: the receive thread     *)
(* keeps running while it can, and so does a disconnect() under way.       *)

\* a binary frame, a Ping and a Close
CancelReads ==
    { Frame(2, FALSE, <<0, 64>>), Frame(9, FALSE, <<1>>), Frame(8, FALSE, <<3, 232>>) }

RlRecvCancel == RlRecvIn(CancelReads)

NextCancel ==
    \/ Connect("response", <<T101>>)
    \/ ConnectSendInit
    \/ ConnectReturn
    \/ DisconnectFlags
    \/ DisconnectClose
    \/ DisconnectJoin
    \/ RlTop
    \/ RlSelect
    \/ RlRecvCancel
    \/ RlExit

Fairness ==
    /\ WF_vars(RlTop)
    /\ WF_vars(RlSelect)
    /\ WF_vars(RlRecvCancel)
    /\ WF_vars(RlExit)
    /\ WF_vars(DisconnectClose)
    /\ WF_vars(DisconnectJoin)

SpecCancel == Init /\ [][NextCancel]_vars /\ Fairness

-----------------------------------------------------------------------------
(* The buffer lock of the second version: the audio callback, the          *)
(* resampler and reset take bufferMutex around their use of the buffer;    *)
(* the context menu's buffer size item resizes the buffer without it.      *)
(* Each critical section is a lock step, the body, and an unlock step.     *)

LockIdle ==
    UNCHANGED <<connected, shouldStop, socketFd, joinable, callbackSet, openFds,
                terminated, callerPc, rlPc, connStep, connSent, hs, lastOp,
                prevOp, lastRet, joinedThread, rx, ringVars, paramVars, presetVars,
                callVars, callbackMutex>>

\* std::lock_guard<std::mutex> lock(bufferMutex) by thread t, entering at pc
Acquire(t, pc) ==
    /\ ~terminated
    /\ lockPc[t] = "idle"
    /\ bufferMutex = "free"
    /\ bufferMutex' = t
    /\ lockPc' = [lockPc EXCEPT ![t] = pc]
    /\ UNCHANGED <<bufferSize, bufferLen, v2ReadPos, v2WritePos>>
    /\ LockIdle

\* the lock_guard of thread t goes out of scope at pc
Release(t, pc) ==
    /\ ~terminated
    /\ lockPc[t] = pc
    /\ bufferMutex' = "free"
    /\ lockPc' = [lockPc EXCEPT ![t] = "idle"]
    /\ UNCHANGED <<bufferSize, bufferLen, v2ReadPos, v2WritePos>>
    /\ LockIdle

\* the positions after the callback's loop stored count samples
RECURSIVE V2Put(_, _)
V2Put(pos, count) ==
    IF count = 0 THEN pos
    ELSE LET w == (pos.w + 1) % bufferLen
             r == IF w = pos.r THEN (pos.r + 1) % bufferLen ELSE pos.r
         IN  V2Put([w |-> w, r |-> r], count - 1)

\* the read position after the resampler's loop ran advance times
RECURSIVE V2Take(_, _, _)
V2Take(r, w, advance) ==
    IF advance = 0 THEN r
    ELSE V2Take(IF r # w THEN (r + 1) % bufferLen ELSE r, w, advance - 1)

CallbackLock == Acquire("receive", "cb_locked")

\* the loop of the audio callback over count samples
CallbackWrite ==
    /\ ~terminated
    /\ lockPc["receive"] = "cb_locked"
    /\ \E count \in 1..MaxBatch :
          LET pos == V2Put([w |-> v2WritePos, r |-> v2ReadPos], count) IN
          /\ v2WritePos' = pos.w
          /\ v2ReadPos' = pos.r
    /\ lockPc' = [lockPc EXCEPT !["receive"] = "cb_done"]
    /\ UNCHANGED <<bufferMutex, bufferSize, bufferLen>>
    /\ LockIdle

CallbackUnlock == Release("receive", "cb_done")

ResampleLock == Acquire("engine", "rs_locked")

\* the body of getResampledAudio: the read position advances
ResampleRead ==
    /\ ~terminated
    /\ lockPc["engine"] = "rs_locked"
    /\ \E advance \in 0..MaxBatch :
          v2ReadPos' = V2Take(v2ReadPos, v2WritePos, advance)
    /\ lockPc' = [lockPc EXCEPT !["engine"] = "rs_done"]
    /\ UNCHANGED <<bufferMutex, bufferSize, bufferLen, v2WritePos>>
    /\ LockIdle

ResampleUnlock == Release("engine", "rs_done")

ResetLock == Acquire("engine", "reset_locked")

\* the body of onReset(), as the first version has it
ResetClear ==
    /\ ~terminated
    /\ lockPc["engine"] = "reset_locked"
    /\ v2ReadPos' = 0
    /\ v2WritePos' = 0
    /\ lockPc' = [lockPc EXCEPT !["engine"] = "reset_done"]
    /\ UNCHANGED <<bufferMutex, bufferSize, bufferLen>>
    /\ LockIdle

\* as ResetUnlock, but reset keeps the buffer lock until the receive loop has
\* ended
ResetUnlock_AfterLoopEnds == rlPc = "exited" /\ Release("engine", "reset_done")

ResetUnlock == Release("engine", "reset_done")

\* BufferItem::onAction: module->bufferSize = size, and resize() starts; no
\* lock is taken
ResizeBegin(size) ==
    /\ lockPc["ui"] = "idle"
    /\ bufferSize' = size
    /\ lockPc' = [lockPc EXCEPT !["ui"] = "resizing"]
    /\ UNCHANGED <<bufferMutex, bufferLen, v2ReadPos, v2WritePos>>
    /\ LockIdle

\* audioBuffer.resize(48000 * size) is done: the buffer has its new size
ResizeEnd ==
    /\ lockPc["ui"] = "resizing"
    /\ bufferLen' = bufferSize
    /\ lockPc' = [lockPc EXCEPT !["ui"] = "idle"]
    /\ UNCHANGED <<bufferMutex, bufferSize, v2ReadPos, v2WritePos>>
    /\ LockIdle

NextLock ==
    \/ CallbackLock
    \/ CallbackWrite
    \/ CallbackUnlock
    \/ ResampleLock
    \/ ResampleRead
    \/ ResampleUnlock
    \/ ResetLock
    \/ ResetClear
    \/ ResetUnlock
    \/ \E size \in BufferSizes : ResizeBegin(size)
    \/ ResizeEnd

SpecLock == Init /\ [][NextLock]_vars

-----------------------------------------------------------------------------
(* The threads of a streaming session at the grain of their locks: the     *)
(* receive thread takes callbackMutex in processAudioPacket and, inside    *)
(* the callback, bufferMutex; the engine thread takes bufferMutex in the   *)
(* resampler and in reset; the caller replaces the callback and            *)
(* disconnects.  A thread that wants a held lock waits.                    *)

\* what the steps below leave alone
ThreadIdle ==
    UNCHANGED <<connected, shouldStop, socketFd, joinable, openFds, callerPc,
                connStep, connSent, hs, lastOp, prevOp, lastRet, joinedThread, rx,
                ringVars, paramVars, presetVars, callVars, bufferSize, bufferLen,
                v2ReadPos, v2WritePos>>

\* recv() returned a binary frame with samples: processAudioPacket takes
\* callbackMutex
PacketLock ==
    /\ ~terminated
    /\ rlPc = "recv"
    /\ socketFd \in openFds
    /\ callbackMutex = "free"
    /\ callbackMutex' = "receive"
    /\ rlPc' = "packet"
    /\ lockPc' = [lockPc EXCEPT !["receive"] = "pk_locked"]
    /\ UNCHANGED <<bufferMutex, callbackSet, terminated>>
    /\ ThreadIdle

\* if (audioCallback) audioCallback(...): the callback is invoked, or not.
\* While setAudioCallback is assigning the std::function the read races with
\* the write: the test sees the old or the new value, or the call goes
\* through a half-written object and the process crashes
PacketInvoke ==
    /\ ~terminated
    /\ lockPc["receive"] = "pk_locked"
    /\ LET racing == lockPc["ui"] = "assigning" IN
       \/ /\ callbackSet \/ racing
          /\ lockPc' = [lockPc EXCEPT !["receive"] = "cb_wait"]
          /\ UNCHANGED terminated
       \/ /\ ~callbackSet \/ racing
          /\ lockPc' = [lockPc EXCEPT !["receive"] = "pk_done"]
          /\ UNCHANGED terminated
       \/ /\ racing
          /\ terminated' = TRUE
          /\ UNCHANGED lockPc
    /\ UNCHANGED <<bufferMutex, callbackMutex, callbackSet, rlPc>>
    /\ ThreadIdle

\* thread t, waiting at pc from, gets bufferMutex and goes on at pc to
Enter(t, from, to) ==
    /\ ~terminated
    /\ lockPc[t] = from
    /\ bufferMutex = "free"
    /\ bufferMutex' = t
    /\ lockPc' = [lockPc EXCEPT ![t] = to]
    /\ UNCHANGED <<callbackMutex, callbackSet, terminated, rlPc>>
    /\ ThreadIdle

\* thread t, idle, calls an operation that starts by taking bufferMutex
Want(t, pc) ==
    /\ ~terminated
    /\ lockPc[t] = "idle"
    /\ lockPc' = [lockPc EXCEPT ![t] = pc]
    /\ UNCHANGED <<bufferMutex, callbackMutex, callbackSet, terminated, rlPc>>
    /\ ThreadIdle

\* the callback's lock_guard
CallbackEnter == Enter("receive", "cb_wait", "cb_locked")

\* the callback returns: its lock_guard releases bufferMutex
CallbackLeave ==
    /\ ~terminated
    /\ lockPc["receive"] = "cb_done"
    /\ bufferMutex' = "free"
    /\ lockPc' = [lockPc EXCEPT !["receive"] = "pk_done"]
    /\ UNCHANGED <<callbackMutex, callbackSet, terminated, rlPc>>
    /\ ThreadIdle

\* processAudioPacket returns: callbackMutex is released, and the loop goes
\* back to its test
PacketUnlock ==
    /\ ~terminated
    /\ lockPc["receive"] = "pk_done"
    /\ callbackMutex' = "free"
    /\ lockPc' = [lockPc EXCEPT !["receive"] = "idle"]
    /\ rlPc' = "top"
    /\ UNCHANGED <<bufferMutex, callbackSet, terminated>>
    /\ ThreadIdle

ResampleWant == Want("engine", "rs_wait")

ResampleEnter == Enter("engine", "rs_wait", "rs_locked")

ResetWant == Want("engine", "reset_wait")

ResetEnter == Enter("engine", "reset_wait", "reset_locked")

\* setAudioCallback(callback): the assignment to audioCallback starts; no
\* lock is taken
AssignBegin ==
    /\ ~terminated
    /\ callerPc = "idle"
    /\ lockPc["ui"] = "idle"
    /\ lockPc' = [lockPc EXCEPT !["ui"] = "assigning"]
    /\ UNCHANGED <<bufferMutex, callbackMutex, callbackSet, terminated, rlPc>>
    /\ ThreadIdle

\* the assignment is done: a callback, or an empty function, is in place
AssignEnd ==
    /\ ~terminated
    /\ lockPc["ui"] = "assigning"
    /\ \E b \in BOOLEAN : callbackSet' = b
    /\ lockPc' = [lockPc EXCEPT !["ui"] = "idle"]
    /\ UNCHANGED <<bufferMutex, callbackMutex, terminated, rlPc>>
    /\ ThreadIdle

\* disconnect() is called by the thread that sets callbacks
DisconnectStart == DisconnectFlags /\ lockPc["ui"] = "idle"

\* the steps of the receive thread, of the engine thread and of the caller
ReceiveSteps ==
    \/ RlTop
    \/ RlSelect
    \/ RlRecvTune
    \/ RlExit
    \/ PacketLock
    \/ PacketInvoke
    \/ CallbackEnter
    \/ CallbackWrite
    \/ CallbackLeave
    \/ PacketUnlock

EngineSteps ==
    \/ ResampleWant
    \/ ResampleEnter
    \/ ResampleRead
    \/ ResampleUnlock
    \/ ResetWant
    \/ ResetEnter
    \/ ResetClear
    \/ ResetUnlock

CallerSteps ==
    \/ AssignBegin
    \/ AssignEnd
    \/ DisconnectStart
    \/ DisconnectClose
    \/ DisconnectJoin

NextThreads == ReceiveSteps \/ EngineSteps \/ CallerSteps

SpecThreads == InitAudio /\ [][NextThreads]_vars

-----------------------------------------------------------------------------
(* Vocabulary of the properties *)

\* the session-initialization sequence as the specification lists it
ExpectedInit ==
    << "SET auth t=kiwi p=",
       "SET AR OK in=12000 out=44100",
       "SET squelch=0 max=0",
       "SET genattn=0",
       "SET mod=am low_cut=-4000 high_cut=4000 freq=7055.000",
       "SET keepalive",
       "SET AUDIO_COMP=0",
       "SET AUDIO_START=1" >>

IsPrefix(s, t) == Len(s) <= Len(t) /\ s = SubSeq(t, 1, Len(s))

\* the response, as raw bytes, contains the text
Contains101(resp) == \E i \in 1..Len(resp) : resp[i] = T101

\* the caller is back from the operation it started last
Returned(op) == callerPc = "idle" /\ lastOp = op

\* the receive-loop thread can take no step
LoopDead == rlPc \in {"none", "exited"}

\* the read starts with a complete unmasked short-form frame of this opcode
StartsWithFrame(buf, op) ==
    /\ Len(buf) >= 2
    /\ buf[1] % 16 = op
    /\ buf[2] < 126
    /\ Len(buf) >= 2 + buf[2]

\* the read is exactly one such frame
IsOneFrame(buf, op) == StartsWithFrame(buf, op) /\ Len(buf) = 2 + buf[2]

FirstPayload(buf) == SubSeq(buf, 3, 2 + buf[2])

RECURSIVE XorBits(_, _, _)
XorBits(a, b, n) ==
    IF n = 0 THEN 0
    ELSE (((a % 2) + (b % 2)) % 2) + 2 * XorBits(a \div 2, b \div 2, n - 1)

\* bytes is one Pong frame, unmasked or masked, that carries payload p
IsPongOf(bytes, p) ==
    \/ bytes = <<138, Len(p)>> \o p
    \/ /\ Len(bytes) = 6 + Len(p)
       /\ bytes[1] = 138
       /\ bytes[2] = 128 + Len(p)
       /\ \A i \in 1..Len(p) :
             XorBits(bytes[6 + i], bytes[3 + ((i - 1) % 4)], 8) = p[i]

\* signed 16-bit value of a little-endian byte pair
Int16LE(b0, b1) ==
    LET u == b0 + 256 * b1 IN IF u < 32768 THEN u ELSE u - 65536

ExpectedSamples(p) ==
    [i \in 1..(Len(p) \div 2) |->
        [num |-> Int16LE(p[2 * i - 1], p[2 * i]), den |-> 32768]]

HasMsgPrefix(p) == Len(p) >= 4 /\ SubSeq(p, 1, 4) = <<77, 83, 71, 32>>

-----------------------------------------------------------------------------
(* C1 *)

\* C1: once disconnect() has returned, the receive-loop thread has exited: it
\* can take no further step (no read, no callback, no ring-buffer write)
\* until a later connect() starts a new one.
C1_DisconnectReturnsAfterLoopExit ==
    Returned("disconnect") => LoopDead

\* disconnect() returned after it joined a loop that it stopped (the loop's
\* last read delivered audio and did not end the loop)
C1_Witness ==
    /\ Returned("disconnect")
    /\ joinedThread
    /\ rlPc = "exited"
    /\ rx.n > 0 /\ ~rx.brk /\ rx.cbs # << >>

-----------------------------------------------------------------------------
(* C2 *)

\* C2: connect() reports success exactly when the response read contains
\* "101 Switching Protocols"; on every other outcome it returns failure, no
\* receive loop runs, the socket it opened is closed, the handle is invalid
\* and isConnected() is false.
C2_SuccessIffResponseContains101 ==
    Returned("connect") =>
        /\ lastRet <=> (hs.kind = "response" /\ Contains101(hs.resp))
        /\ ~lastRet =>
              /\ LoopDead
              /\ ~connected
              /\ hs.fd # -1 => (hs.fd \notin openFds /\ socketFd = -1)

\* What the code does: the same with the response read as a C string, that is
\* up to its first zero byte.
C2_SuccessIffCStringContains101 ==
    Returned("connect") =>
        /\ lastRet <=>
              /\ hs.kind = "response"
              /\ \E i \in 1..Len(hs.resp) :
                    hs.resp[i] = T101 /\ NUL \notin { hs.resp[j] : j \in 1..(i - 1) }
        /\ ~lastRet =>
              /\ LoopDead
              /\ ~connected
              /\ hs.fd # -1 => (hs.fd \notin openFds /\ socketFd = -1)

-----------------------------------------------------------------------------
(* C3 *)

\* C3: what connect() has sent is at every moment a prefix of the
\* initialization sequence (authenticate, audio rates, squelch, gain, tune,
\* keepalive, compression off, audio start), it sends only after it started
\* the receive loop, and when it returns true it has sent the whole sequence,
\* each command once.
C3_InitCommandsInOrder ==
    /\ IsPrefix(connSent, ExpectedInit)
    /\ Len(connSent) = connStep
    /\ callerPc = "conn_init" => (hs.ok /\ joinable /\ rlPc # "none")
    /\ (Returned("connect") /\ lastRet) => connSent = ExpectedInit

\* connect() returned true with all eight commands sent
C3_Witness ==
    /\ Returned("connect") /\ lastRet
    /\ Len(connSent) = 8
    /\ connSent[5] = "SET mod=am low_cut=-4000 high_cut=4000 freq=7055.000"
    /\ connSent[8] = "SET AUDIO_START=1"

-----------------------------------------------------------------------------
(* C4 *)

\* C4: a connect() whose handshake succeeds, also when it is invoked after the
\* peer closed the session and without a disconnect() in between, ends in no
\* process-fatal error.
C4_ReconnectWithoutDisconnectIsSafe ==
    (lastOp = "connect" /\ hs.ok) => ~terminated

-----------------------------------------------------------------------------
(* C5 *)

\* C5: after disconnect() returned the socket handle is invalid, the socket of
\* the session it ended is closed and the receive thread is not joinable; a
\* connect() that follows it with a successful handshake starts one receive
\* loop on the new socket, ends in no fatal error and returns true.
C5_DisconnectLeavesNothingBehind ==
    /\ Returned("disconnect") => (socketFd = -1 /\ ~joinable)
    /\ (Returned("disconnect") /\ hs.ok) => hs.fd \notin openFds
    /\ (lastOp = "connect" /\ prevOp = "disconnect" /\ hs.ok) =>
          /\ ~terminated
          /\ joinable /\ rlPc # "none"
          /\ socketFd = hs.fd /\ hs.fd \in openFds
          /\ callerPc = "idle" => lastRet

\* connect() returned true right after a disconnect() that joined the
\* receive thread of the session before
C5_Witness ==
    /\ Returned("connect") /\ prevOp = "disconnect" /\ hs.ok /\ lastRet
    /\ joinedThread
    /\ joinable /\ socketFd \in openFds

-----------------------------------------------------------------------------
(* C6 *)

\* C6: after a read that returned 0 bytes or an error the receive loop does
\* not read or dispatch again, and once it has exited isConnected() is false
\* and stays false until a later connect() has a successful handshake; the
\* read itself ends in no fatal error.
C6_EofOrErrorStopsLoop ==
    (rx.n \in {0, -1} /\ ~terminated) =>
        /\ rx.brk
        /\ rlPc \in {"exiting", "exited"}
        /\ rlPc = "exited" => ~connected

\* the peer closed, the loop has exited, the caller has done nothing since
C6_Witness ==
    /\ rx.n = 0
    /\ rlPc = "exited"
    /\ Returned("connect") /\ lastRet
    /\ ~connected

-----------------------------------------------------------------------------
(* C7 *)

\* C7: every read that starts with an unmasked Close frame, whatever its
\* payload length, makes the receive loop stop, and isConnected() is false
\* once it has exited.
C7_CloseFrameStopsLoop ==
    (rx.n >= 2 /\ StartsWithFrame(rx.buf, 8) /\ ~terminated) =>
        /\ rx.brk
        /\ rlPc \in {"exiting", "exited"}
        /\ rlPc = "exited" => ~connected

-----------------------------------------------------------------------------
(* C8 *)

\* C8: every read that starts with an unmasked Ping frame, whatever its
\* payload length, makes the receive loop send exactly the bytes of one Pong
\* frame carrying the Ping's payload.
C8_PingAnsweredByOnePong ==
    (rx.n >= 2 /\ StartsWithFrame(rx.buf, 9)) =>
        IsPongOf(rx.pong, FirstPayload(rx.buf))

-----------------------------------------------------------------------------
(* C9 *)

\* C9: a binary frame with an audio payload of len bytes causes exactly one
\* callback invocation with floor(len / 2) samples, sample i being the signed
\* little-endian 16-bit value of bytes 2i, 2i+1 over 32768, and none when
\* that is no sample or no callback is set.
C9_AudioFrameDecoded ==
    (rx.n >= 2 /\ IsOneFrame(rx.buf, 2) /\ ~HasMsgPrefix(FirstPayload(rx.buf))) =>
        LET p == FirstPayload(rx.buf) IN
        rx.cbs = IF Len(p) \div 2 > 0 /\ rx.cbSet
                 THEN << ExpectedSamples(p) >>
                 ELSE << >>

\* the frame [0x00, 0x40, 0x00, 0xC0] was delivered as 16384/32768, -16384/32768
C9_Witness ==
    /\ rx.buf = <<130, 4, 0, 64, 0, 192>>
    /\ rx.cbs = << << [num |-> 16384, den |-> 32768],
                      [num |-> -16384, den |-> 32768] >> >>

-----------------------------------------------------------------------------
(* C10 *)

\* C10: a binary frame whose payload starts with "MSG ", of any length from 4
\* bytes on, causes no callback invocation.
C10_MsgFrameIsNotAudio ==
    (rx.n >= 2 /\ IsOneFrame(rx.buf, 2) /\ HasMsgPrefix(FirstPayload(rx.buf))) =>
        rx.cbs = << >>

-----------------------------------------------------------------------------
(* C11 *)

\* the read begins with a frame that has the mask bit set, or whose 7-bit
\* length field is 127
IsFramingError(buf) ==
    Len(buf) >= 2 /\ (buf[2] >= 128 \/ buf[2] % 128 = 127)

\* C11: a read that begins with a masked frame, or with a frame whose 7-bit
\* length field is 127 (however many of its bytes arrived in the read), has no
\* effect: no callback invocation, no Pong, and the loop is not stopped.
C11_FramingErrorsAreDiscarded ==
    (rx.n >= 2 /\ IsFramingError(rx.buf)) =>
        (rx.cbs = << >> /\ rx.pong = << >> /\ ~rx.brk)

-----------------------------------------------------------------------------
(* C12 *)

\* the read holds a complete 64-bit-length frame and, right after it, one
\* complete unmasked binary frame with a short length
LargeThenBinary(buf) ==
    /\ Len(buf) >= 12
    /\ buf[2] = 127
    /\ LET len == buf[9] * 256 + buf[10]
           next == SubSeq(buf, 11 + len, Len(buf))
       IN  /\ Len(next) >= 2
           /\ IsOneFrame(next, 2)

\* the frame that follows the 64-bit-length frame in the read
FrameAfterLarge(buf) == SubSeq(buf, 11 + buf[9] * 256 + buf[10], Len(buf))

\* C12: the well-formed frame that follows a discarded 64-bit-length frame in
\* the same read is decoded from its own first header byte and dispatched
\* normally: a binary frame of audio reaches the callback as its samples.
C12_FrameAfterLargeHeaderIsDispatched ==
    (rx.n >= 2 /\ LargeThenBinary(rx.buf) /\ rx.cbSet
        /\ Len(FirstPayload(FrameAfterLarge(rx.buf))) >= 2
        /\ ~HasMsgPrefix(FirstPayload(FrameAfterLarge(rx.buf)))) =>
        rx.cbs = << ExpectedSamples(FirstPayload(FrameAfterLarge(rx.buf))) >>

-----------------------------------------------------------------------------
(* C13 *)

\* the samples a reader can still retrieve, oldest first
UnreadSeq ==
    [i \in 1..Unread(readPos, writePos) |-> audioBuffer[(readPos + i - 1) % RingCap]]

\* the n most recently written samples, in write order
LastWritten(n) == SubSeq(written, Len(written) - n + 1, Len(written))

\* more than RingCap samples were written and none was read
OverwrittenUnread == Len(written) > RingCap /\ lastIdx = 0

\* C13 as stated: after more than capacity samples were written with no
\* reads, exactly capacity samples are retrievable, the most recent ones in
\* write order.
C13_OverwriteKeepsCapacity ==
    OverwrittenUnread => UnreadSeq = LastWritten(RingCap)

\* C13 amended: after more than capacity samples were written with no reads,
\* exactly capacity - 1 samples are retrievable, and they are the
\* capacity - 1 most recently written ones in write order.
C13_OverwriteKeepsCapacityLessOne ==
    OverwrittenUnread => UnreadSeq = LastWritten(RingCap - 1)

\* the writer has wrapped around an unread buffer and dropped old samples
C13_Witness ==
    /\ OverwrittenUnread
    /\ Len(written) = RingCap + 2
    /\ written[Len(written)] # written[Len(written) - 1]

-----------------------------------------------------------------------------
(* C14 *)

\* the sample consumed last since construction or reset, zero if none was
LastConsumed == IF lastIdx = 0 THEN 0 ELSE written[lastIdx]

\* a resampler tick was just made
Ticked == tick.rate # 0

\* C14: a resampler tick made on an empty buffer, at any rate and whatever the
\* phase, returns the sample consumed last before the underrun (zero if none
\* was ever consumed) and leaves the read position where it was; so any
\* number of consecutive ticks with nothing written return that one value.
C14_UnderrunHoldsLastValue ==
    (Ticked /\ tick.empty) =>
        /\ tick.out = PhaseDen * LastConsumed
        /\ tick.n = 0
        /\ readPos = tick.rp
        /\ readPos = writePos

\* a tick on a drained buffer, between two source samples, after the
\* sample 2 was consumed
C14_Witness ==
    /\ Ticked
    /\ tick.empty
    /\ lastIdx > 0
    /\ LastConsumed = 2
    /\ resamplePhase # 0
    /\ tick.rate = 16000

-----------------------------------------------------------------------------
(* C15 *)

\* every sample written so far equals v
AllWritten(v) == \A i \in 1..Len(written) : written[i] = v

\* C15: when every written sample equals v and the engine rate is 48 kHz
\* (step 1/4), every tick made after the first sample was consumed returns
\* exactly v, also when the buffer is empty at that tick.
C15_ConstantInputConstantOutput ==
    \A v \in SampleVals :
        (Ticked /\ tick.rate = 48000 /\ tick.had /\ AllWritten(v)) =>
            tick.out = PhaseDen * v

\* a 48 kHz tick between two source samples on a buffer that has run empty,
\* after several samples 2 were written
C15_Witness ==
    /\ Ticked
    /\ tick.rate = 48000
    /\ tick.had
    /\ tick.empty
    /\ Len(written) >= 2
    /\ AllWritten(2)
    /\ resamplePhase # 0

-----------------------------------------------------------------------------
(* C16 *)

\* the bytes are a frame with the mask bit set, the fixed key and a 7-bit
\* length below 126
IsMaskedShortFrame(bytes) ==
    /\ Len(bytes) >= 6
    /\ bytes[2] >= 128
    /\ bytes[2] - 128 < 126
    /\ SubSeq(bytes, 3, 6) = <<18, 52, 86, 120>>

\* C16: every frame the client sends after the handshake has the mask bit
\* set, carries the key 0x12 0x34 0x56 0x78 and a 7-bit length below 126;
\* here for the frames the receive loop sends, the Pong replies.
C16_EverySentFrameIsMasked ==
    rx.pong # << >> => IsMaskedShortFrame(rx.pong)

-----------------------------------------------------------------------------
(* C17 *)

\* sendWebSocketFrame was just called with cmd
Sent == tx.op = "send"

\* C17: for a text of more than 125 bytes sendWebSocketFrame returns false
\* and hands nothing to the socket; for a text of 0..125 bytes on a valid
\* socket it hands over exactly one frame of 6 + length bytes.
C17_EncodingFailsOnlyOnLength ==
    Sent =>
        /\ Len(cmd) > 125 => (~tx.ret /\ ~tx.called /\ tx.bytes = << >>)
        /\ (Len(cmd) <= 125 /\ socketFd >= 0) =>
               (tx.called /\ Len(tx.bytes) = 6 + Len(cmd))

\* the longest text that is sent
C17_Witness ==
    /\ Sent
    /\ socketFd >= 0
    /\ Len(cmd) = 125
    /\ Len(tx.bytes) = 131

-----------------------------------------------------------------------------
(* C18 *)

\* the payload of a masked short frame, unmasked with the key in the frame
Unmask(bytes) ==
    [i \in 1..(Len(bytes) - 6) |->
        XorBits(bytes[6 + i], bytes[3 + ((i - 1) % 4)], 8)]

\* C18: the frame built for a text is 0x81, 0x80 | len, the four key bytes
\* and the payload; unmasking the payload gives the text back; and the
\* client's own inbound rule has no effect on the frame, whatever opcode it
\* carried, since its mask bit is set.
C18_FrameRoundTrip ==
    (Sent /\ tx.called) =>
        /\ Len(tx.bytes) = 6 + Len(cmd)
        /\ tx.bytes[1] = 129
        /\ tx.bytes[2] = 128 + Len(cmd)
        /\ SubSeq(tx.bytes, 3, 6) = <<18, 52, 86, 120>>
        /\ Unmask(tx.bytes) = cmd
        /\ \A op \in {1, 2, 8, 9} :
               Dispatch(<<128 + op>> \o Tail(tx.bytes), TRUE) = NoEffect

\* a text longer than the key, with bytes that differ from the key
C18_Witness ==
    /\ Sent
    /\ tx.called
    /\ cmd = <<83, 255, 18, 83, 255>>
    /\ tx.bytes[7] # 83

-----------------------------------------------------------------------------
(* C19 *)

\* a setMode call was just made, directly or by the module
ModeCalled == tx.op \in {"setMode", "processMode"}

\* the command the specification gives for a mode
ExpectedModeText(mode) ==
    CASE mode = "am"  -> "SET mod=am low_cut=-4000 high_cut=4000"
      [] mode = "fm"  -> "SET mod=nbfm low_cut=-4000 high_cut=4000"
      [] mode = "usb" -> "SET mod=usb low_cut=-4000 high_cut=4000"
      [] mode = "lsb" -> "SET mod=lsb low_cut=-4000 high_cut=4000"
      [] mode = "cw"  -> "SET mod=cw low_cut=-4000 high_cut=4000"
      [] OTHER        -> "SET mod=am low_cut=-4000 high_cut=4000"

\* C19: a setMode call made while connected sends one text frame, and its
\* text is "SET mod=<m> low_cut=-4000 high_cut=4000" with m = am, nbfm, usb,
\* lsb, cw for am, fm, usb, lsb, cw and am for any other input; the module
\* calls it only with one of its five mode names, whatever the parameter.
C19_SetModeSendsMappedCommand ==
    ModeCalled =>
        /\ tx.conn => (tx.called /\ tx.text = ExpectedModeText(tx.arg))
        /\ tx.op = "processMode" => tx.arg \in {"am", "fm", "usb", "lsb", "cw"}

\* the module, with the mode parameter at 1.5, has just sent the fm command
C19_Witness ==
    /\ tx.op = "processMode"
    /\ tx.conn
    /\ modeParam = 3
    /\ tx.arg = "fm"
    /\ tx.text = "SET mod=nbfm low_cut=-4000 high_cut=4000"

-----------------------------------------------------------------------------
(* C20 *)

\* what the claim says of one handlePresetPress call e, the current
\* frequency being the frequency parameter as process() read it
PressAsSpecified(e) ==
    IF ~e.wasSaved
    THEN /\ e.storedAfter = e.cur
         /\ e.savedAfter
         /\ e.paramAfter = e.paramBefore
    ELSE /\ e.paramAfter = e.storedBefore
         /\ e.storedAfter = e.storedBefore
         /\ e.savedAfter

-----------------------------------------------------------------------------
(* C21 *)

\* the receive loop of the session is still running
LoopRunning == rlPc \in {"top", "select", "recv", "exiting"}

\* C21: disconnect() closes the socket and invalidates the handle only after
\* the receive loop was joined: in no reachable state is the handle invalid,
\* or its socket closed, while the receive loop of that session still runs.
C21_HandleValidWhileLoopRuns ==
    LoopRunning => (socketFd >= 0 /\ socketFd \in openFds)

-----------------------------------------------------------------------------
(* C22 *)

\* the read ends in the middle of an unmasked frame: inside its payload, or
\* inside its 16-bit length
IsTruncatedFrame(buf) ==
    /\ Len(buf) >= 2
    /\ buf[2] < 128
    /\ \/ buf[2] < 126 /\ Len(buf) < 2 + buf[2]
       \/ buf[2] = 126 /\ Len(buf) < 4

\* C22: a read that ends in the middle of a frame dispatches nothing: no
\* callback invocation with a truncated payload, no Pong, no stop.
C22_TruncatedFrameNotDispatched ==
    (rx.n >= 2 /\ IsTruncatedFrame(rx.buf)) =>
        (rx.cbs = << >> /\ rx.pong = << >> /\ ~rx.brk)

-----------------------------------------------------------------------------
(* C23 *)

\* the read holds exactly two complete unmasked binary frames with short
\* lengths
IsTwoBinaryFrames(buf) ==
    /\ Len(buf) >= 4
    /\ StartsWithFrame(buf, 2)
    /\ Len(buf) >= 2 + buf[2] + 2
    /\ IsOneFrame(SubSeq(buf, 3 + buf[2], Len(buf)), 2)

\* the second frame of such a read
SecondFrame(buf) == SubSeq(buf, 3 + buf[2], Len(buf))

\* the callback invocations a binary frame with payload p causes when it
\* arrives in a read of its own
OwnReadCallbacks(p) ==
    IF Len(p) >= 2 /\ ~(Len(p) > 4 /\ HasMsgPrefix(p))
    THEN << ExpectedSamples(p) >> ELSE << >>

\* C23: two complete binary frames that arrive together in one read cause
\* the callback invocations they cause when each arrives in its own read:
\* both are decoded and dispatched, in order.
C23_TwoFramesInOneRead ==
    (rx.n >= 2 /\ IsTwoBinaryFrames(rx.buf) /\ rx.cbSet) =>
        rx.cbs = OwnReadCallbacks(FirstPayload(rx.buf))
                 \o OwnReadCallbacks(FirstPayload(SecondFrame(rx.buf)))

-----------------------------------------------------------------------------
(* C24 *)

\* a step of the receive loop: the loop moves and the caller's side stays
LoopStep == LoopRunning /\ rlPc' # rlPc /\ UNCHANGED callerVars

\* the step in which disconnect() raises the flags
DisconnectRequest == callerPc = "idle" /\ callerPc' = "disc_close"

\* C24: the flags are single-writer: every step that changes the connection
\* state is a step of the receive loop, and every step that changes the stop
\* flag is the step of a caller requesting a disconnect.
C24_FlagsAreSingleWriter ==
    [][ /\ (connected' # connected => LoopStep)
        /\ (shouldStop' # shouldStop => DisconnectRequest) ]_vars

-----------------------------------------------------------------------------
(* C25 *)

\* thread t is inside the code that reads or writes the buffer, its
\* positions or its size
InSection(t) == lockPc[t] # "idle"

\* C25: every access to the ring buffer (by the producer callback, the
\* resampler, reset and the buffer-size change) happens while the accessing
\* thread holds the buffer lock, so no two accesses overlap.
C25_BufferAccessHoldsLock ==
    /\ \A t \in Threads : InSection(t) => bufferMutex = t
    /\ Cardinality({ t \in Threads : InSection(t) }) <= 1

-----------------------------------------------------------------------------
(* C26 *)

\* a disconnect() is under way
Disconnecting == callerPc \in {"disc_close", "disc_join"}

\* C26: once the stop flag is set, the receive loop eventually exits, and a
\* disconnect() under way eventually returns.
C26_StopFlagEndsLoop ==
    /\ (shouldStop /\ LoopRunning) ~> LoopDead
    /\ Disconnecting ~> Returned("disconnect")

-----------------------------------------------------------------------------
(* C27 *)

\* the samples written since the one consumed last
NotConsumed == Len(written) - lastIdx

\* a write found the buffer full after the reader had consumed samples, and
\* pushed the read position
C27_Witness ==
    /\ lastIdx > 0
    /\ NotConsumed >= RingCap
    /\ Unread(readPos, writePos) = RingCap - 1
    /\ written[Len(written)] # written[Len(written) - 1]

\* C27: the write policy, for any interleaving of writes and reads: both
\* positions are in 0..capacity-1, the write position has advanced by one
\* modulo capacity for each written sample, every written sample that is
\* still unread sits where it was stored, and a write that meets the read
\* position drops the single oldest unread sample, so the unread samples
\* number at most capacity - 1 and are the most recently written ones.
C27_RingWritePolicy ==
    /\ readPos \in 0..(RingCap - 1)
    /\ writePos \in 0..(RingCap - 1)
    /\ writePos = Len(written) % RingCap
    /\ Unread(readPos, writePos) = Min(RingCap - 1, NotConsumed)
    /\ UnreadSeq = LastWritten(Unread(readPos, writePos))

-----------------------------------------------------------------------------
(* C28 *)

\* a tick consumed two samples of different value right after dropped ones
C28_Witness ==
    /\ Ticked
    /\ tick.n = 2
    /\ tick.took[1] # tick.took[2]
    /\ lastIdx - tick.n > tick.prevIdx

\* C28: for any interleaving of writes and reads, the values a tick takes
\* from the buffer are samples written since the last reset, taken in the
\* order they were written and after every sample taken before, so none is
\* taken twice; and while fewer than capacity samples were written, none is
\* left out: a drained buffer has given back all of them.
C28_RingFifoOrder ==
    /\ Ticked =>
          /\ tick.n = Len(tick.took)
          /\ lastIdx <= Len(written)
          /\ tick.n > 0 =>
                /\ lastIdx - tick.n >= tick.prevIdx
                /\ tick.took = SubSeq(written, lastIdx - tick.n + 1, lastIdx)
                /\ lastSample = written[lastIdx]
          /\ (tick.n > 0 /\ Len(written) < RingCap) =>
                lastIdx - tick.n = tick.prevIdx
    /\ (Len(written) < RingCap /\ readPos = writePos) => lastIdx = Len(written)

-----------------------------------------------------------------------------
(* C29 *)

\* the positions the read position moves by in a step
Moved == (readPos' - readPos + RingCap) % RingCap

\* a tick between two source samples on a buffer that holds unread samples
C29_Witness ==
    /\ Ticked
    /\ tick.acc < PhaseDen
    /\ ~tick.empty
    /\ tick.n = 0
    /\ tick.out # PhaseDen * lastSample

\* C29: a resampler tick whose accumulated phase stays below 1 leaves the
\* read position, the write position, the buffer contents and lastSample
\* unchanged; a tick moves the read position by at most floor(phase)
\* positions and never past the write position, and no tick changes the
\* write position or the buffer contents.
C29_PeekingNeverConsumes ==
    [][ Ticked' =>
          /\ tick'.acc < PhaseDen =>
                UNCHANGED <<readPos, writePos, audioBuffer, lastSample>>
          /\ Moved = tick'.n
          /\ Moved <= tick'.acc \div PhaseDen
          /\ Moved <= Unread(readPos, writePos)
          /\ UNCHANGED <<writePos, audioBuffer>> ]_vars

-----------------------------------------------------------------------------
(* C30 *)

\* a tick on an empty buffer whose phase reached 2: nothing could be consumed
C30_Witness ==
    /\ Ticked
    /\ tick.empty
    /\ tick.acc >= 2 * PhaseDen
    /\ tick.n = 0
    /\ resamplePhase # 0

\* C30: the phase is in [0, 1) in every state; each tick adds
\* sourceRate/engineRate to it and removes the integer part of the sum in
\* full, also when fewer samples than that could be consumed.
C30_PhaseInvariant ==
    /\ resamplePhase >= 0
    /\ resamplePhase < PhaseDen
    /\ Ticked =>
          /\ tick.acc * tick.rate = tick.phase0 * tick.rate + SourceRate * PhaseDen
          /\ resamplePhase = tick.acc % PhaseDen

-----------------------------------------------------------------------------
(* C31 *)

\* a run of ticks is under way, the last of them just made
InRun == run.ticks > 0 /\ Ticked

\* eight ticks at 48 kHz from phase 0 on a buffer that never ran empty
C31_Witness ==
    /\ InRun
    /\ run.rate = 48000
    /\ run.ticks = 8
    /\ run.consumed = 2

\* C31: after n ticks at one engine rate, started at phase 0 and none of
\* which found the buffer empty, floor(n * sourceRate / engineRate) samples
\* have been consumed; at 48 kHz the samples are consumed one at a time, on
\* every 4th tick; at 8 kHz, below the source rate, every second tick
\* consumes two samples.
C31_AdvanceRate ==
    InRun =>
        /\ run.consumed = (run.ticks * SourceRate) \div run.rate
        /\ run.rate = tick.rate
        /\ run.rate = 48000 => tick.n = (IF run.ticks % 4 = 0 THEN 1 ELSE 0)
        /\ run.rate = 8000 => tick.n = (IF run.ticks % 2 = 0 THEN 2 ELSE 1)

-----------------------------------------------------------------------------
(* C32 *)

\* the state of the client
clientVars ==
    <<connected, shouldStop, socketFd, joinable, callbackSet, openFds, terminated,
      callerVars, rlPc, rx>>

\* a setter was just called (the lifecycle leaves the call record alone)
SetterCalled == tx' # tx /\ tx'.op \in {"setFrequency", "setMode", "setBandwidth"}

\* setFrequency was called after the peer closed: the client is not
\* connected, but its socket is still open
C32_Witness ==
    /\ tx.op = "setFrequency"
    /\ ~tx.conn
    /\ ~connected
    /\ rlPc = "exited"
    /\ socketFd \in openFds

\* C32: a setFrequency, setMode or setBandwidth call made while the client
\* is not connected hands nothing to send(), leaves the client's state as it
\* was and changes nothing at the server.
C32_SettersIdleWhenDisconnected ==
    [][ (SetterCalled /\ ~connected) =>
            /\ ~tx'.called
            /\ tx'.text = ""
            /\ UNCHANGED <<clientVars, server>> ]_vars

-----------------------------------------------------------------------------
(* C33 *)

\* the passband in effect at the server
Passband(srv) == <<srv.low, srv.high>>

\* C33: the tuning operations are independent: a setFrequency call leaves
\* the mode and the passband in effect at the server as they were, and a
\* setMode call leaves the passband in effect as it was.
C33_TuningIndependent ==
    [][ /\ (tx' # tx /\ tx'.op = "setFrequency") =>
              (server'.mode = server.mode /\ Passband(server') = Passband(server))
        /\ (tx' # tx /\ tx'.op = "setMode") =>
              Passband(server') = Passband(server) ]_vars

-----------------------------------------------------------------------------
(* C34 *)

\* the receive loop has passed its loop test and is about to call select(),
\* or recv() and the send() of a Pong, on socketFd
AboutToUseHandle == rlPc \in {"select", "recv"}

\* C34: in every interleaving of disconnect() with the receive loop, the
\* handle the loop is about to pass to select, recv or send is the open
\* socket it checked at the top of the iteration: never a closed one, never
\* -1.
C34_LoopUsesOpenHandle ==
    AboutToUseHandle => (socketFd # -1 /\ socketFd \in openFds)

-----------------------------------------------------------------------------
(* C35 *)

\* the receive thread is between taking and releasing callbackMutex: it
\* reads audioCallback, or runs it
Invoking == lockPc["receive"] \in {"pk_locked", "cb_wait", "cb_locked", "cb_done", "pk_done"}

\* setAudioCallback is writing audioCallback
Assigning == lockPc["ui"] = "assigning"

\* C35: replacing the callback never overlaps the receive loop's reading and
\* invoking it: an assignment under way holds the callback lock, so the
\* receive thread is not inside processAudioPacket's locked section then.
C35_AssignmentExcludesInvocation == Assigning => ~Invoking

-----------------------------------------------------------------------------
(* C36 *)

\* C36: in every reachable state, also after the buffer size was changed
\* from the menu while audio flows, the read position and the write position
\* are both smaller than the capacity of the buffer.
C36_PositionsInsideBuffer ==
    /\ v2ReadPos < bufferLen
    /\ v2WritePos < bufferLen

-----------------------------------------------------------------------------
(* C37 *)

\* thread t is inside an operation and none of its steps can be taken
Blocked(t) ==
    /\ ~terminated
    /\ CASE t = "receive" -> rlPc \notin {"none", "exited"} /\ ~ENABLED ReceiveSteps
         [] t = "engine" -> lockPc["engine"] # "idle" /\ ~ENABLED EngineSteps
         [] t = "ui" -> (callerPc # "idle" \/ lockPc["ui"] # "idle") /\ ~ENABLED CallerSteps

\* thread t is at the acquisition of the buffer lock
AtAcquire(t) == lockPc[t] \in {"cb_wait", "rs_wait", "reset_wait"}

\* the thread whose step a blocked thread t needs: the holder of the buffer
\* lock, or the receive thread whose end it waits for
WaitsFor(t) ==
    IF ~Blocked(t) THEN "none"
    ELSE IF AtAcquire(t) THEN bufferMutex
    ELSE IF t = "receive" THEN "none"
    ELSE "receive"

\* the thread reached from t by following WaitsFor n times
WaitChain(t, n) ==
    LET step(w) == IF w \in Threads THEN WaitsFor(w) ELSE "none"
    IN  IF n = 1 THEN step(t)
        ELSE IF n = 2 THEN step(step(t))
        ELSE step(step(step(t)))

\* the caller joins the receive thread, which waits for the buffer lock that
\* the engine thread holds
C37_Witness ==
    /\ callerPc = "disc_join"
    /\ WaitsFor("ui") = "receive"
    /\ WaitsFor("receive") = "engine"
    /\ WaitsFor("engine") = "none"

\* C37: the system is deadlock-free: no reachable state has threads that
\* wait for one another in a circle, each blocked on a lock or a join that
\* another of them must release; following the waits from any thread ends
\* at a thread that can step.
C37_NoWaitCycle ==
    ~terminated => \A t \in Threads : WaitChain(t, 3) = "none"

-----------------------------------------------------------------------------
(* C38 *)

\* C38: no socket is leaked: every socket the client opened is closed, or
\* is the one stored in the client's socket handle; connect never overwrites
\* a handle that refers to a socket still open.
C38_NoSocketLeak == openFds \subseteq {socketFd}

-----------------------------------------------------------------------------
(* C39 *)

\* the frequency parameter is more than the change threshold away from the
\* frequency of the last tune command the server got
OutOfTune == Abs(freqParam - server.freq) > FreqThreshold

\* C39: tuning reaches the server: whenever the client is connected and the
\* frequency parameter differs by more than the threshold from the last
\* tune command transmitted, a tune command for the current frequency is
\* eventually transmitted (or the connection ends); a change made while
\* disconnected is not lost when the connection comes up.
C39_TuningReachesServer ==
    (connected /\ callerPc = "idle" /\ OutOfTune) ~> (~connected \/ ~OutOfTune)

=============================================================================
